---- MODULE Spec2Model ----
(***************************************************************************)
(* A model of astroid/tree/node_classes.py: the node heap, the getitem     *)
(* helpers (_slice_value, _infer_slice, _container_getitem), the getitem   *)
(* entry points of List, Tuple, Const and Dict, Slice.igetattr, the        *)
(* sibling and block_range queries of statements, the Call and Arguments   *)
(* queries, type_errors of the operator nodes, get_children,               *)
(* Comprehension._get_filtered_stmts, and the postinit step.               *)
(*                                                                         *)
(* Nodes live in the sequence `nodes`; a node is referred to by its        *)
(* position (1-based), and 0 stands for Python's None.  Python values held *)
(* by Const nodes are records [t, i, s]: t is the type tag, i the integer  *)
(* payload, s the character sequence of a string.                          *)
(***************************************************************************)
EXTENDS Integers, Sequences, FiniteSets, TLC

VARIABLES nodes,      \* the node objects and their fields
          last,       \* the call just made: operation, arguments, outcome
          allocs,     \* number of nodes created by queries so far
          postinits,  \* per node: number of postinit calls made on it
          lookups     \* per node: number of lookups made for it in the
                      \* builtins registry (MANAGER.builtins().getattr)

vars == <<nodes, last, allocs, postinits, lookups>>

-----------------------------------------------------------------------------
(* Bounds of the model *)

MaxElts == 2
MaxIdx == 2
MaxAllocs == 1
MaxPairs == 3
MaxPostinits == 2
MaxStmts == 3
MaxArgs == 2
MaxLookups == 2

-----------------------------------------------------------------------------
(* Python values *)

IntV(i) == [t |-> "int", i |-> i, s |-> <<>>]
NoneV == [t |-> "none", i |-> 0, s |-> <<>>]
StrV(s) == [t |-> "str", i |-> 0, s |-> s]
\* A bytes object: s holds its bytes as integers.
BytesV(s) == [t |-> "bytes", i |-> 0, s |-> s]

\* The module-level marker object, distinct from every Python value.
_SLICE_SENTINEL == [t |-> "sentinel", i |-> 0, s |-> <<>>]

\* isinstance(value, (int, type(None)))
IsIntOrNone(v) == v.t \in {"int", "none"}

\* value == value on Python objects of the modelled types
PyEq(a, b) == a.t = b.t /\ a.i = b.i /\ a.s = b.s

-----------------------------------------------------------------------------
(* Inference results: the candidates an infer() generator yields in order, *)
(* and whether it ends by raising InferenceError after them.               *)

CConst(v) == [c |-> "Const", value |-> v]
CUninferable == [c |-> "Uninferable", value |-> NoneV]
CInstance == [c |-> "Instance", value |-> NoneV]
Inferred(cands, err) == [cands |-> cands, err |-> err]
NoInference == Inferred(<<CInstance>>, FALSE)

-----------------------------------------------------------------------------
(* Node objects *)

Node(kind, parent) ==
    [kind |-> kind, parent |-> parent,
     elts |-> <<>>, keys |-> <<>>, values |-> <<>>,
     value |-> NoneV, lower |-> 0, upper |-> 0, step |-> 0,
     sub |-> 0, slice |-> 0,
     inferred |-> NoInference, proxied |-> "unset"]

ConstNode(v, parent) == [Node("Const", parent) EXCEPT !.value = v]
NameNode(inf, parent) == [Node("Name", parent) EXCEPT !.inferred = inf]
Absent == Node("absent", 0)

\* node.infer(context): a Const yields itself; any other node yields what the
\* inference engine finds for it.
infer(ns, n) ==
    IF ns[n].kind = "Const"
    THEN Inferred(<<CConst(ns[n].value)>>, FALSE)
    ELSE ns[n].inferred

\* A child list that may be None: <<>> is None, <<l>> the list l.
NoList == <<>>
ListOf(l) == <<l>>

\* Assign(): the class attributes targets = None, value = None.
AssignNode(parent) ==
    [kind |-> "Assign", parent |-> parent, targets |-> NoList, value |-> 0]

\* Arguments(parent): the child attributes exist once postinit has set them;
\* until then they are shown empty.
ArgumentsNode(parent) ==
    [kind |-> "Arguments", parent |-> parent,
     args |-> <<>>, vararg |-> 0, kwarg |-> 0,
     keyword_only |-> <<>>, positional_only |-> <<>>,
     positional_and_keyword |-> <<>>]

\* Parameter(name, parent=parent), default and annotation not yet set.
ParameterNode(name, parent) ==
    [kind |-> "Parameter", parent |-> parent, name |-> name,
     default |-> 0, annotation |-> 0]

EmptyNode == [kind |-> "Empty", parent |-> 0]

\* A statement, or an expression with a position: fromlineno and tolineno are
\* the values of the node's properties of these names.
StmtNode(kind, parent, fromlineno, tolineno) ==
    [kind |-> kind, parent |-> parent,
     fromlineno |-> fromlineno, tolineno |-> tolineno,
     test |-> 0, body |-> <<>>, orelse |-> <<>>, handlers |-> <<>>,
     finalbody |-> <<>>, type |-> 0, name |-> 0]

Assign_postinit(ns, self, targets, value) ==
    [ns EXCEPT ![self].targets = targets, ![self].value = value]

Arguments_postinit(ns, self, args, vararg, kwarg, keyword_only, positional_only) ==
    [ns EXCEPT ![self].args = args,
               ![self].vararg = vararg,
               ![self].kwarg = kwarg,
               ![self].keyword_only = keyword_only,
               ![self].positional_only = positional_only,
               ![self].positional_and_keyword = args \o positional_only]

Parameter_postinit(ns, self, default, annotation) ==
    [ns EXCEPT ![self].default = default, ![self].annotation = annotation]

-----------------------------------------------------------------------------
(* Python's sequence indexing and slicing: seq[i] and seq[lower:upper:step] *)

PyInRange(len, i) == -len <= i /\ i < len
PyPos(len, i) == IF i < 0 THEN i + len + 1 ELSE i + 1

SliceStep(st) == IF st.t = "none" THEN 1 ELSE st.i

\* A given bound, clamped as the built-in slice does.
SliceClamp(x, len, step) ==
    LET y == IF x < 0 THEN x + len ELSE x
    IN IF y < 0 THEN (IF step < 0 THEN -1 ELSE 0)
       ELSE IF y >= len THEN (IF step < 0 THEN len - 1 ELSE len)
       ELSE y

RECURSIVE SliceWalk(_, _, _, _)
SliceWalk(seq, i, stop, step) ==
    IF (step > 0 /\ i < stop) \/ (step < 0 /\ i > stop)
    THEN <<seq[i + 1]>> \o SliceWalk(seq, i + step, stop, step)
    ELSE <<>>

\* seq[lo:up:st] for a non-zero step
PySlice(seq, lo, up, st) ==
    LET step == SliceStep(st)
        len == Len(seq)
        start == IF lo.t = "none" THEN (IF step < 0 THEN len - 1 ELSE 0)
                 ELSE SliceClamp(lo.i, len, step)
        stop == IF up.t = "none" THEN (IF step < 0 THEN -1 ELSE len)
                ELSE SliceClamp(up.i, len, step)
    IN SliceWalk(seq, start, stop, step)

-----------------------------------------------------------------------------
(* Results of calls *)

(* outcome: "return" or the exception raised; node: the node returned;     *)
(* heap: the node objects after the call; inferctx: the contexts handed to *)
(* infer() during the call; nested: the getitem calls made on other nodes; *)
(* excarg: the argument of the exception; registry: the nodes a lookup in   *)
(* the builtins registry was made for; stub: the builtin stub obtained.     *)

Result(outcome, node, heap, ictx) ==
    [outcome |-> outcome, node |-> node, heap |-> heap,
     inferctx |-> ictx, nested |-> <<>>, excarg |-> 0, registry |-> <<>>, stub |-> ""]

Returns(ns, node, ictx) == Result("return", node, ns, ictx)
Raises(ns, exc, ictx) == Result(exc, 0, ns, ictx)

-----------------------------------------------------------------------------
(* getitem() helpers *)

RECURSIVE FirstUsable(_)
\* The first int or None constant among the candidates, the sentinel if none.
FirstUsable(cands) ==
    IF cands = <<>> THEN _SLICE_SENTINEL
    ELSE IF Head(cands).c = "Const" /\ IsIntOrNone(Head(cands).value)
    THEN Head(cands).value
    ELSE FirstUsable(Tail(cands))

\* _slice_value searching the whole inferred sequence for a usable constant.
_slice_value_any(ns, index, context) ==
    IF index # 0 /\ ns[index].kind = "Const"
    THEN [value |-> IF IsIntOrNone(ns[index].value)
                    THEN ns[index].value ELSE _SLICE_SENTINEL,
          inferctx |-> {}]
    ELSE IF index = 0
    THEN [value |-> NoneV, inferctx |-> {}]
    ELSE [value |-> FirstUsable(infer(ns, index).cands), inferctx |-> {context}]

_slice_value(ns, index, context) ==
    IF index # 0 /\ ns[index].kind = "Const"
    THEN [value |-> IF IsIntOrNone(ns[index].value)
                    THEN ns[index].value ELSE _SLICE_SENTINEL,
          inferctx |-> {}]
    ELSE IF index = 0
    THEN [value |-> NoneV, inferctx |-> {}]
    ELSE LET inf == infer(ns, index)
         IN [value |-> IF inf.cands = <<>>
                       THEN _SLICE_SENTINEL
                       ELSE LET inferred == Head(inf.cands)
                            IN IF inferred.c = "Const" /\ IsIntOrNone(inferred.value)
                               THEN inferred.value
                               ELSE _SLICE_SENTINEL,
             inferctx |-> {context}]

\* _infer_slice content with one resolved bound.
_infer_slice_any(ns, node, context) ==
    LET lower == _slice_value(ns, ns[node].lower, context)
        upper == _slice_value(ns, ns[node].upper, context)
        step == _slice_value(ns, ns[node].step, context)
    IN [ok |-> \E elem \in {lower.value, upper.value, step.value} :
                  elem # _SLICE_SENTINEL,
        lower |-> lower.value, upper |-> upper.value, step |-> step.value,
        inferctx |-> lower.inferctx \cup upper.inferctx \cup step.inferctx]

_infer_slice(ns, node, context) ==
    LET lower == _slice_value(ns, ns[node].lower, context)
        upper == _slice_value(ns, ns[node].upper, context)
        step == _slice_value(ns, ns[node].step, context)
    IN [ok |-> \A elem \in {lower.value, upper.value, step.value} :
                  elem # _SLICE_SENTINEL,
        lower |-> lower.value, upper |-> upper.value, step |-> step.value,
        inferctx |-> lower.inferctx \cup upper.inferctx \cup step.inferctx]

\* _container_getitem with the index used as a position from the front only.
_container_getitem_nonneg(ns, instance, elts, index, context) ==
    IF ns[index].kind = "Slice"
    THEN LET index_slice == _infer_slice(ns, index, context)
         IN IF ~index_slice.ok
            THEN Raises(ns, "TypeError", index_slice.inferctx)
            ELSE IF SliceStep(index_slice.step) = 0
            THEN Raises(ns, "ValueError", index_slice.inferctx)
            ELSE LET new_cls ==
                         [Node(ns[instance].kind, ns[instance].parent) EXCEPT
                            !.elts = PySlice(elts, index_slice.lower,
                                             index_slice.upper, index_slice.step)]
                 IN Result("return", Len(ns) + 1, Append(ns, new_cls),
                           index_slice.inferctx)
    ELSE IF ns[index].kind = "Const"
    THEN LET v == ns[index].value
         IN IF v.t # "int" THEN Raises(ns, "TypeError", {})
            ELSE IF v.i < 0 \/ v.i >= Len(elts) THEN Raises(ns, "IndexError", {})
            ELSE Returns(ns, elts[v.i + 1], {})
    ELSE Raises(ns, "TypeError", {})

\* _container_getitem with the new container hung under the old one.
_container_getitem_child(ns, instance, elts, index, context) ==
    IF ns[index].kind = "Slice"
    THEN LET index_slice == _infer_slice(ns, index, context)
         IN IF ~index_slice.ok
            THEN Raises(ns, "TypeError", index_slice.inferctx)
            ELSE IF SliceStep(index_slice.step) = 0
            THEN Raises(ns, "ValueError", index_slice.inferctx)
            ELSE LET new_cls ==
                         [Node(ns[instance].kind, instance) EXCEPT
                            !.elts = PySlice(elts, index_slice.lower,
                                             index_slice.upper, index_slice.step)]
                 IN Result("return", Len(ns) + 1, Append(ns, new_cls),
                           index_slice.inferctx)
    ELSE IF ns[index].kind = "Const"
    THEN LET v == ns[index].value
         IN IF v.t # "int" THEN Raises(ns, "TypeError", {})
            ELSE IF ~PyInRange(Len(elts), v.i) THEN Raises(ns, "IndexError", {})
            ELSE Returns(ns, elts[PyPos(Len(elts), v.i)], {})
    ELSE Raises(ns, "TypeError", {})

\* _container_getitem making the new container the parent of its elements.
_container_getitem_adopt(ns, instance, elts, index, context) ==
    IF ns[index].kind = "Slice"
    THEN LET index_slice == _infer_slice(ns, index, context)
         IN IF ~index_slice.ok
            THEN Raises(ns, "TypeError", index_slice.inferctx)
            ELSE IF SliceStep(index_slice.step) = 0
            THEN Raises(ns, "ValueError", index_slice.inferctx)
            ELSE LET new_elts == PySlice(elts, index_slice.lower,
                                         index_slice.upper, index_slice.step)
                     new_cls ==
                         [Node(ns[instance].kind, ns[instance].parent) EXCEPT
                            !.elts = new_elts]
                 IN Result("return", Len(ns) + 1,
                           [n \in 1..(Len(ns) + 1) |->
                              IF n = Len(ns) + 1 THEN new_cls
                              ELSE IF \E k \in 1..Len(new_elts) : new_elts[k] = n
                              THEN [ns[n] EXCEPT !.parent = Len(ns) + 1]
                              ELSE ns[n]],
                           index_slice.inferctx)
    ELSE IF ns[index].kind = "Const"
    THEN LET v == ns[index].value
         IN IF v.t # "int" THEN Raises(ns, "TypeError", {})
            ELSE IF ~PyInRange(Len(elts), v.i) THEN Raises(ns, "IndexError", {})
            ELSE Returns(ns, elts[PyPos(Len(elts), v.i)], {})
    ELSE Raises(ns, "TypeError", {})

_container_getitem(ns, instance, elts, index, context) ==
    IF ns[index].kind = "Slice"
    THEN LET index_slice == _infer_slice(ns, index, context)
         IN IF ~index_slice.ok
            THEN Raises(ns, "TypeError", index_slice.inferctx)
            ELSE IF SliceStep(index_slice.step) = 0
            THEN Raises(ns, "ValueError", index_slice.inferctx)
            ELSE LET new_cls ==
                         [Node(ns[instance].kind, ns[instance].parent) EXCEPT
                            !.elts = PySlice(elts, index_slice.lower,
                                             index_slice.upper, index_slice.step)]
                 IN Result("return", Len(ns) + 1, Append(ns, new_cls),
                           index_slice.inferctx)
    ELSE IF ns[index].kind = "Const"
    THEN LET v == ns[index].value
         IN IF v.t # "int" THEN Raises(ns, "TypeError", {})
            ELSE IF ~PyInRange(Len(elts), v.i) THEN Raises(ns, "IndexError", {})
            ELSE Returns(ns, elts[PyPos(Len(elts), v.i)], {})
    ELSE Raises(ns, "TypeError", {})

\* List.getitem handing an index that is neither a Slice nor a Const to the
\* inference engine and answering with nothing.
List_getitem_inferring(ns, self, index, context) ==
    IF ns[index].kind \notin {"Slice", "Const"}
    THEN Result("return", 0, ns, {context})
    ELSE _container_getitem(ns, self, ns[self].elts, index, "None")

List_getitem(ns, self, index, context) ==
    _container_getitem(ns, self, ns[self].elts, index, "None")

Tuple_getitem(ns, self, index, context) ==
    _container_getitem(ns, self, ns[self].elts, index, "None")

\* Const.getitem hanging the new Const under the one subscripted.
Const_getitem_child(ns, self, index, context) ==
    LET isConst == ns[index].kind = "Const"
        isSlice == ns[index].kind = "Slice"
        index_slice == _infer_slice(ns, index, context)
        ictx == IF isSlice THEN index_slice.inferctx ELSE {}
        v == ns[self].value
    IN IF ~isConst /\ ~isSlice THEN Raises(ns, "TypeError", {})
       ELSE IF isSlice /\ ~index_slice.ok THEN Raises(ns, "TypeError", ictx)
       ELSE IF v.t \notin {"str", "bytes"} THEN Raises(ns, "TypeError", ictx)
       ELSE IF isConst
       THEN LET index_value == ns[index].value
            IN IF index_value.t # "int" THEN Raises(ns, "TypeError", ictx)
               ELSE IF ~PyInRange(Len(v.s), index_value.i)
               THEN Raises(ns, "IndexError", ictx)
               ELSE LET item == v.s[PyPos(Len(v.s), index_value.i)]
                    IN Result("return", Len(ns) + 1,
                              Append(ns, ConstNode(IF v.t = "str" THEN StrV(<<item>>)
                                                   ELSE IntV(item), self)),
                              ictx)
       ELSE IF SliceStep(index_slice.step) = 0 THEN Raises(ns, "ValueError", ictx)
       ELSE Result("return", Len(ns) + 1,
                   Append(ns, ConstNode([v EXCEPT !.s = PySlice(v.s, index_slice.lower,
                                                                index_slice.upper,
                                                                index_slice.step)], self)),
                   ictx)

\* A string indexes to a string of one character, a bytes object to an
\* integer; a slice of either is of its own type.
Const_getitem(ns, self, index, context) ==
    LET isConst == ns[index].kind = "Const"
        isSlice == ns[index].kind = "Slice"
        index_slice == _infer_slice(ns, index, context)
        ictx == IF isSlice THEN index_slice.inferctx ELSE {}
        v == ns[self].value
    IN IF ~isConst /\ ~isSlice THEN Raises(ns, "TypeError", {})
       ELSE IF isSlice /\ ~index_slice.ok THEN Raises(ns, "TypeError", ictx)
       ELSE IF v.t \notin {"str", "bytes"} THEN Raises(ns, "TypeError", ictx)
       ELSE IF isConst
       THEN LET index_value == ns[index].value
            IN IF index_value.t # "int" THEN Raises(ns, "TypeError", ictx)
               ELSE IF ~PyInRange(Len(v.s), index_value.i)
               THEN Raises(ns, "IndexError", ictx)
               ELSE LET item == v.s[PyPos(Len(v.s), index_value.i)]
                    IN Result("return", Len(ns) + 1,
                              Append(ns, ConstNode(IF v.t = "str" THEN StrV(<<item>>)
                                                   ELSE IntV(item), 0)),
                              ictx)
       ELSE IF SliceStep(index_slice.step) = 0 THEN Raises(ns, "ValueError", ictx)
       ELSE Result("return", Len(ns) + 1,
                   Append(ns, ConstNode([v EXCEPT !.s = PySlice(v.s, index_slice.lower,
                                                                index_slice.upper,
                                                                index_slice.step)], 0)),
                   ictx)

\* for inferredkey in key.infer(context): does some candidate match lookup_key?
KeyMatches(ns, key, lookup_key) ==
    \E j \in 1..Len(infer(ns, key).cands) :
        LET inferredkey == infer(ns, key).cands[j]
        IN /\ inferredkey.c # "Uninferable"
           /\ inferredkey.c = "Const"
           /\ ns[lookup_key].kind = "Const"
           /\ PyEq(inferredkey.value, ns[lookup_key].value)

Min(a, b) == IF a < b THEN a ELSE b

RECURSIVE getitem(_, _, _, _)
RECURSIVE Dict_pairs(_, _, _, _, _)

RECURSIVE Dict_pairs_last(_, _, _, _, _)
RECURSIVE Dict_pairs_stop(_, _, _, _, _)
RECURSIVE Dict_pairs_none(_, _, _, _, _)

\* The loop of Dict.getitem with a later matching pair overriding an earlier one.
Dict_pairs_last(ns, self, i, lookup_key, context) ==
    IF i > Min(Len(ns[self].keys), Len(ns[self].values))
    THEN [Raises(ns, "IndexError", {}) EXCEPT !.excarg = lookup_key]
    ELSE LET key == ns[self].keys[i]
             value == ns[self].values[i]
         IN IF ns[key].kind = "DictUnpack"
            THEN LET r == getitem(ns, value, lookup_key, context)
                     call == [by |-> self, recv |-> value, key |-> lookup_key,
                              ctx |-> context, outcome |-> r.outcome, node |-> r.node]
                 IN IF r.outcome = "IndexError"
                    THEN LET rest == Dict_pairs_last(ns, self, i + 1, lookup_key, context)
                         IN [rest EXCEPT !.inferctx = r.inferctx \cup @,
                                         !.nested = <<call>> \o r.nested \o @]
                    ELSE [r EXCEPT !.nested = <<call>> \o @]
            ELSE IF KeyMatches(ns, key, lookup_key)
            THEN LET rest == Dict_pairs_last(ns, self, i + 1, lookup_key, context)
                 IN IF rest.outcome = "return" THEN rest
                    ELSE Returns(ns, value, {context})
            ELSE IF infer(ns, key).err
            THEN Raises(ns, "InferenceError", {context})
            ELSE LET rest == Dict_pairs_last(ns, self, i + 1, lookup_key, context)
                 IN [rest EXCEPT !.inferctx = {context} \cup @]

\* The loop of Dict.getitem without the handler around the nested lookup.
Dict_pairs_stop(ns, self, i, lookup_key, context) ==
    IF i > Min(Len(ns[self].keys), Len(ns[self].values))
    THEN [Raises(ns, "IndexError", {}) EXCEPT !.excarg = lookup_key]
    ELSE LET key == ns[self].keys[i]
             value == ns[self].values[i]
         IN IF ns[key].kind = "DictUnpack"
            THEN LET r == getitem(ns, value, lookup_key, context)
                     call == [by |-> self, recv |-> value, key |-> lookup_key,
                              ctx |-> context, outcome |-> r.outcome, node |-> r.node]
                 IN [r EXCEPT !.nested = <<call>> \o @]
            ELSE IF KeyMatches(ns, key, lookup_key)
            THEN Returns(ns, value, {context})
            ELSE IF infer(ns, key).err
            THEN Raises(ns, "InferenceError", {context})
            ELSE LET rest == Dict_pairs_stop(ns, self, i + 1, lookup_key, context)
                 IN [rest EXCEPT !.inferctx = {context} \cup @]

\* The loop of Dict.getitem falling off its end, returning None.
Dict_pairs_none(ns, self, i, lookup_key, context) ==
    IF i > Min(Len(ns[self].keys), Len(ns[self].values))
    THEN Returns(ns, 0, {})
    ELSE LET key == ns[self].keys[i]
             value == ns[self].values[i]
         IN IF ns[key].kind = "DictUnpack"
            THEN LET r == getitem(ns, value, lookup_key, context)
                     call == [by |-> self, recv |-> value, key |-> lookup_key,
                              ctx |-> context, outcome |-> r.outcome, node |-> r.node]
                 IN IF r.outcome = "IndexError"
                    THEN LET rest == Dict_pairs_none(ns, self, i + 1, lookup_key, context)
                         IN [rest EXCEPT !.inferctx = r.inferctx \cup @,
                                         !.nested = <<call>> \o r.nested \o @]
                    ELSE [r EXCEPT !.nested = <<call>> \o @]
            ELSE IF KeyMatches(ns, key, lookup_key)
            THEN Returns(ns, value, {context})
            ELSE IF infer(ns, key).err
            THEN Raises(ns, "InferenceError", {context})
            ELSE LET rest == Dict_pairs_none(ns, self, i + 1, lookup_key, context)
                 IN [rest EXCEPT !.inferctx = {context} \cup @]

\* The loop of Dict.getitem from pair i on.
Dict_pairs(ns, self, i, lookup_key, context) ==
    IF i > Min(Len(ns[self].keys), Len(ns[self].values))
    THEN [Raises(ns, "IndexError", {}) EXCEPT !.excarg = lookup_key]
    ELSE LET key == ns[self].keys[i]
             value == ns[self].values[i]
         IN IF ns[key].kind = "DictUnpack"
            THEN LET r == getitem(ns, value, lookup_key, context)
                     call == [by |-> self, recv |-> value, key |-> lookup_key,
                              ctx |-> context, outcome |-> r.outcome, node |-> r.node]
                 IN IF r.outcome = "IndexError"
                    THEN LET rest == Dict_pairs(ns, self, i + 1, lookup_key, context)
                         IN [rest EXCEPT !.inferctx = r.inferctx \cup @,
                                         !.nested = <<call>> \o r.nested \o @]
                    ELSE [r EXCEPT !.nested = <<call>> \o @]
            ELSE IF KeyMatches(ns, key, lookup_key)
            THEN Returns(ns, value, {context})
            ELSE IF infer(ns, key).err
            THEN Raises(ns, "InferenceError", {context})
            ELSE LET rest == Dict_pairs(ns, self, i + 1, lookup_key, context)
                 IN [rest EXCEPT !.inferctx = {context} \cup @]

Dict_getitem(ns, self, lookup_key, context) ==
    Dict_pairs(ns, self, 1, lookup_key, context)

\* value.getitem(lookup_key, context): the method of the receiver's class.
getitem(ns, self, index, context) ==
    CASE ns[self].kind = "Dict" -> Dict_getitem(ns, self, index, context)
      [] ns[self].kind = "List" -> List_getitem(ns, self, index, context)
      [] ns[self].kind = "Tuple" -> Tuple_getitem(ns, self, index, context)
      [] ns[self].kind = "Const" -> Const_getitem(ns, self, index, context)
      [] OTHER -> Raises(ns, "AttributeError", {})

-----------------------------------------------------------------------------
(* Slice *)

\* A read of a property decorated with decorators.cachedproperty: the
\* first read runs the body, which asks the registry for the stub called
\* name, and keeps the result in the instance; later reads return what is
\* kept.
cachedproperty(ns, self, name) ==
    IF ns[self].proxied = "unset"
    THEN [Returns([ns EXCEPT ![self].proxied = name], 0, {}) EXCEPT
             !.registry = <<self>>, !.stub = name]
    ELSE [Returns(ns, 0, {}) EXCEPT !.stub = ns[self].proxied]

\* type(self.value).__name__
Const_proxied(ns, self) ==
    cachedproperty(ns, self,
                   CASE ns[self].value.t = "int" -> "int"
                     [] ns[self].value.t = "str" -> "str"
                     [] OTHER -> "NoneType")

Dict_proxied(ns, self) == cachedproperty(ns, self, "dict")

\* List._proxied as a plain property: the registry is asked on every read.
List_proxied_property(ns, self) ==
    [Returns(ns, 0, {}) EXCEPT !.registry = <<self>>, !.stub = "list"]

List_proxied(ns, self) == cachedproperty(ns, self, "list")

Set_proxied(ns, self) == cachedproperty(ns, self, "set")

Slice_proxied(ns, self) == cachedproperty(ns, self, "slice")

Tuple_proxied(ns, self) == cachedproperty(ns, self, "tuple")

\* self._proxied, by the class of self.
proxied(ns, self) ==
    CASE ns[self].kind = "Const" -> Const_proxied(ns, self)
      [] ns[self].kind = "Dict" -> Dict_proxied(ns, self)
      [] ns[self].kind = "List" -> List_proxied(ns, self)
      [] ns[self].kind = "Set" -> Set_proxied(ns, self)
      [] ns[self].kind = "Slice" -> Slice_proxied(ns, self)
      [] ns[self].kind = "Tuple" -> Tuple_proxied(ns, self)

Slice_wrap_attribute(ns, self, attr, context) ==
    IF attr = 0
    THEN Result("return", Len(ns) + 1, Append(ns, ConstNode(NoneV, self)), {})
    ELSE Returns(ns, attr, {})

Slice_igetattr(ns, self, attrname, context) ==
    CASE attrname = "start" -> Slice_wrap_attribute(ns, self, ns[self].lower, context)
      [] attrname = "stop" -> Slice_wrap_attribute(ns, self, ns[self].upper, context)
      [] attrname = "step" -> Slice_wrap_attribute(ns, self, ns[self].step, context)
      [] OTHER -> [Slice_proxied(ns, self) EXCEPT !.outcome = "proxy"]

-----------------------------------------------------------------------------
(* Statements *)

Contains(l, x) == \E k \in 1..Len(l) : l[k] = x

\* list.index(x)
PyIndex(l, x) == CHOOSE k \in 0..(Len(l) - 1) : l[k + 1] = x /\ \A h \in 1..k : l[h] # x

\* The attributes named by type(self)._astroid_fields, in the order declared.
\* An attribute is None (none), or holds the nodes in items: one node, or the
\* elements of a list.
_astroid_fields(ns, self) ==
    LET node == ns[self]
        One(child) == [none |-> child = 0, items |-> <<child>>]
        Many(l) == [none |-> FALSE, items |-> l]
        Opt(l) == [none |-> l = NoList, items |-> IF l = NoList THEN <<>> ELSE l[1]]
    IN CASE node.kind = "Parameter" -> <<One(node.default), One(node.annotation)>>
         [] node.kind = "Arguments" ->
                <<Many(node.args), One(node.vararg), One(node.kwarg),
                  Many(node.keyword_only), Many(node.positional_only)>>
         [] node.kind = "Assign" -> <<Opt(node.targets), One(node.value)>>
         [] node.kind = "Call" -> <<One(node.func), Opt(node.args), Opt(node.keywords)>>
         [] node.kind = "Compare" -> <<One(node.left), Many(node.comparators)>>
         [] node.kind = "Dict" -> <<Many(node.keys), Many(node.values)>>
         [] node.kind = "ExceptHandler" ->
                <<One(node.type), One(node.name), Many(node.body)>>
         [] node.kind = "If" -> <<One(node.test), Many(node.body), Many(node.orelse)>>
         [] node.kind \in {"List", "Set", "Tuple"} -> <<Many(node.elts)>>
         [] node.kind = "Slice" -> <<One(node.lower), One(node.upper), One(node.step)>>
         [] node.kind = "Subscript" -> <<One(node.sub), One(node.slice)>>
         [] node.kind = "TryExcept" ->
                <<Many(node.body), Many(node.handlers), Many(node.orelse)>>
         [] node.kind = "TryFinally" -> <<Many(node.body), Many(node.finalbody)>>
         [] OTHER -> <<>>

\* parent.child_sequence(child): the sequence of the first child field that
\* holds child.
child_sequence(ns, self, child) ==
    LET fields == _astroid_fields(ns, self)
        k == CHOOSE k \in 1..Len(fields) :
                 /\ Contains(fields[k].items, child)
                 /\ \A h \in 1..(k - 1) : ~Contains(fields[h].items, child)
    IN fields[k].items

Statement_next_sibling(ns, self) ==
    LET stmts == child_sequence(ns, ns[self].parent, self)
        index == PyIndex(stmts, self)
    IN IF PyInRange(Len(stmts), index + 1) THEN stmts[PyPos(Len(stmts), index + 1)] ELSE 0

\* previous_sibling without the test of the index: stmts[index - 1] as it is.
Statement_previous_sibling_wrap(ns, self) ==
    LET stmts == child_sequence(ns, ns[self].parent, self)
        index == PyIndex(stmts, self)
    IN stmts[PyPos(Len(stmts), index - 1)]

Statement_previous_sibling(ns, self) ==
    LET stmts == child_sequence(ns, ns[self].parent, self)
        index == PyIndex(stmts, self)
    IN IF index >= 1 THEN stmts[PyPos(Len(stmts), index - 1)] ELSE 0

\* BlockRangeMixIn._elsed_block_range(lineno, orelse, last_): last_ is 0 for a last of None.
_elsed_block_range(ns, self, lineno, orelse, last_) ==
    IF lineno = ns[self].fromlineno
    THEN <<lineno, lineno>>
    ELSE IF orelse # <<>>
    THEN (IF lineno >= ns[orelse[1]].fromlineno
          THEN <<lineno, ns[orelse[Len(orelse)]].tolineno>>
          ELSE <<lineno, ns[orelse[1]].fromlineno - 1>>)
    ELSE <<lineno, IF last_ # 0 THEN last_ ELSE ns[self].tolineno>>

\* If.block_range taking only the lines from the first body line on as
\* lines of the body.
If_block_range_within(ns, self, lineno) ==
    LET body == ns[self].body
    IN IF lineno = ns[body[1]].fromlineno
       THEN <<lineno, lineno>>
       ELSE IF ns[body[1]].fromlineno < lineno /\ lineno <= ns[body[Len(body)]].tolineno
       THEN <<lineno, ns[body[Len(body)]].tolineno>>
       ELSE _elsed_block_range(ns, self, lineno, ns[self].orelse,
                               ns[body[1]].fromlineno - 1)

If_block_range(ns, self, lineno) ==
    LET body == ns[self].body
    IN IF lineno = ns[body[1]].fromlineno
       THEN <<lineno, lineno>>
       ELSE IF lineno <= ns[body[Len(body)]].tolineno
       THEN <<lineno, ns[body[Len(body)]].tolineno>>
       ELSE _elsed_block_range(ns, self, lineno, ns[self].orelse,
                               ns[body[1]].fromlineno - 1)

RECURSIVE TryExcept_handlers_latest(_, _, _, _, _)
\* The loop of TryExcept.block_range setting last at every handler.
TryExcept_handlers_latest(ns, self, lineno, k, last_) ==
    IF k > Len(ns[self].handlers)
    THEN _elsed_block_range(ns, self, lineno, ns[self].orelse, last_)
    ELSE LET exhandler == ns[self].handlers[k]
             body == ns[exhandler].body
         IN IF ns[exhandler].type # 0 /\ lineno = ns[ns[exhandler].type].fromlineno
            THEN <<lineno, lineno>>
            ELSE IF /\ ns[body[1]].fromlineno <= lineno
                    /\ lineno <= ns[body[Len(body)]].tolineno
            THEN <<lineno, ns[body[Len(body)]].tolineno>>
            ELSE TryExcept_handlers_latest(ns, self, lineno, k + 1,
                                           ns[body[1]].fromlineno - 1)

RECURSIVE TryExcept_handlers(_, _, _, _, _)
\* The loop of TryExcept.block_range from handler k on; last_ is 0 for a last of None.
TryExcept_handlers(ns, self, lineno, k, last_) ==
    IF k > Len(ns[self].handlers)
    THEN _elsed_block_range(ns, self, lineno, ns[self].orelse, last_)
    ELSE LET exhandler == ns[self].handlers[k]
             body == ns[exhandler].body
         IN IF ns[exhandler].type # 0 /\ lineno = ns[ns[exhandler].type].fromlineno
            THEN <<lineno, lineno>>
            ELSE IF /\ ns[body[1]].fromlineno <= lineno
                    /\ lineno <= ns[body[Len(body)]].tolineno
            THEN <<lineno, ns[body[Len(body)]].tolineno>>
            ELSE TryExcept_handlers(ns, self, lineno, k + 1,
                                    IF last_ = 0 THEN ns[body[1]].fromlineno - 1
                                    ELSE last_)

TryExcept_block_range(ns, self, lineno) ==
    TryExcept_handlers(ns, self, lineno, 1, 0)

\* TryFinally.block_range without the test of the first lines.
TryFinally_block_range_nested(ns, self, lineno) ==
    LET child == ns[self].body[1]
    IN IF /\ ns[child].kind = "TryExcept"
          /\ lineno > ns[self].fromlineno
          /\ lineno <= ns[child].tolineno
       THEN TryExcept_block_range(ns, child, lineno)
       ELSE _elsed_block_range(ns, self, lineno, ns[self].finalbody, 0)

TryFinally_block_range(ns, self, lineno) ==
    LET child == ns[self].body[1]
    IN IF /\ ns[child].kind = "TryExcept"
          /\ ns[child].fromlineno = ns[self].fromlineno
          /\ lineno > ns[self].fromlineno
          /\ lineno <= ns[child].tolineno
       THEN TryExcept_block_range(ns, child, lineno)
       ELSE _elsed_block_range(ns, self, lineno, ns[self].finalbody, 0)

-----------------------------------------------------------------------------
(* Arguments *)

\* bool(node) for a node or None: only None and the Empty node are false.
Truthy(ns, n) == n # 0 /\ ns[n].kind # "Empty"

NotFound == [i |-> NoneV, arg |-> 0]

RECURSIVE _find_arg_from(_, _, _, _, _)

\* The loop of _find_arg from position k (1-based) on; i counts from 0.
_find_arg_from(ns, argname, args, rec, k) ==
    IF k > Len(args) THEN NotFound
    ELSE LET arg == args[k]
         IN IF ns[arg].kind = "Tuple"
            THEN LET found == _find_arg_from(ns, argname, ns[arg].elts, FALSE, 1)
                 IN IF rec /\ found.i # NoneV
                    THEN found
                    ELSE _find_arg_from(ns, argname, args, rec, k + 1)
            ELSE IF ns[arg].name = argname
            THEN [i |-> IntV(k - 1), arg |-> arg]
            ELSE _find_arg_from(ns, argname, args, rec, k + 1)

_find_arg(ns, argname, args, rec) == _find_arg_from(ns, argname, args, rec, 1)

Arguments_find_argname(ns, self, argname, rec) ==
    IF ns[self].positional_and_keyword # <<>>
    THEN _find_arg(ns, argname, ns[self].positional_and_keyword, rec)
    ELSE NotFound

RECURSIVE Arguments_default_places(_, _, _, _)
\* The loop of default_value over the places still to search.
Arguments_default_places(ns, self, argname, places) ==
    IF places = <<>>
    THEN Raises(ns, "NoDefault", {})
    ELSE LET place == Head(places)
             i == _find_arg(ns, argname, place, FALSE).i
         IN IF i # NoneV /\ Truthy(ns, ns[place[i.i + 1]].default)
            THEN Returns(ns, ns[place[i.i + 1]].default, {})
            ELSE Arguments_default_places(ns, self, argname, Tail(places))

\* default_value searching the positional parameters only.
Arguments_default_value_positional(ns, self, argname) ==
    Arguments_default_places(ns, self, argname, <<ns[self].positional_and_keyword>>)

Arguments_default_value(ns, self, argname) ==
    Arguments_default_places(ns, self, argname,
                             <<ns[self].positional_and_keyword, ns[self].keyword_only>>)

Arguments_is_argument(ns, self, name) ==
    IF Truthy(ns, ns[self].vararg) /\ name = ns[ns[self].vararg].name
    THEN TRUE
    ELSE IF Truthy(ns, ns[self].kwarg) /\ name = ns[ns[self].kwarg].name
    THEN TRUE
    ELSE Arguments_find_argname(ns, self, name, TRUE).arg # 0

-----------------------------------------------------------------------------
(* Call *)

\* Call(): the class attributes func = None, args = None, keywords = None.
CallNode(parent) ==
    [kind |-> "Call", parent |-> parent, func |-> 0, args |-> NoList,
     keywords |-> NoList]

Call_postinit(ns, self, func, args, keywords) ==
    [ns EXCEPT ![self].func = func, ![self].args = args, ![self].keywords = keywords]

\* Keyword(arg, parent=parent): arg is the keyword's name, None for **value.
KeywordNode(arg, parent) == [kind |-> "Keyword", parent |-> parent, arg |-> arg, value |-> 0]

\* l or []
OrEmpty(l) == IF l = NoList THEN <<>> ELSE l[1]

Call_starargs(ns, self) ==
    LET args == OrEmpty(ns[self].args)
    IN SelectSeq(args, LAMBDA arg : ns[arg].kind = "Starred")

Call_kwargs(ns, self) ==
    LET keywords == OrEmpty(ns[self].keywords)
    IN SelectSeq(keywords, LAMBDA keyword : ns[keyword].arg = NoneV)

-----------------------------------------------------------------------------
(* type_errors *)

CBadBinary(k) == [c |-> "BadBinaryOperationMessage", value |-> IntV(k)]
CBadUnary(k) == [c |-> "BadUnaryOperationMessage", value |-> IntV(k)]

\* self._infer_binop(context), self._infer_augassign(context) and
\* self._infer_unaryop(context): what the engine yields for the operation,
\* bad-operation markers included.
_infer_op(ns, self, context) == ns[self].inferred

\* The try block: the list comprehension over the results is returned; an
\* InferenceError raised while the results are produced is caught and the
\* empty list returned.
TypeErrorsOf(results, marker) ==
    [outcome |-> "return",
     result |-> IF results.err THEN <<>>
                ELSE SelectSeq(results.cands, LAMBDA result : result.c = marker)]

\* BinOp.type_errors keeping the markers of either class.
BinOp_type_errors_any(ns, self, context) ==
    LET results == _infer_op(ns, self, context)
    IN [outcome |-> "return",
        result |-> IF results.err THEN <<>>
                   ELSE SelectSeq(results.cands,
                                  LAMBDA result : result.c \in {"BadBinaryOperationMessage",
                                                                "BadUnaryOperationMessage"})]

BinOp_type_errors(ns, self, context) ==
    TypeErrorsOf(_infer_op(ns, self, context), "BadBinaryOperationMessage")

AugAssign_type_errors(ns, self, context) ==
    TypeErrorsOf(_infer_op(ns, self, context), "BadBinaryOperationMessage")

\* UnaryOp.type_errors without the except clause.
UnaryOp_type_errors_uncaught(ns, self, context) ==
    LET results == _infer_op(ns, self, context)
    IN IF results.err THEN [outcome |-> "InferenceError", result |-> <<>>]
       ELSE TypeErrorsOf(results, "BadUnaryOperationMessage")

UnaryOp_type_errors(ns, self, context) ==
    TypeErrorsOf(_infer_op(ns, self, context), "BadUnaryOperationMessage")

-----------------------------------------------------------------------------
(* Traversal: get_children *)

\* Compare(ops, parent=parent): the class attribute left = None, and
\* comparators = [].
CompareNode(parent) ==
    [kind |-> "Compare", parent |-> parent, left |-> 0, comparators |-> <<>>]

\* base.NodeNG.get_children: the declared fields in order; a field that is
\* None is skipped, a list yields its elements.
NodeNG_get_children(ns, self) ==
    LET fields == _astroid_fields(ns, self)
        RECURSIVE From(_)
        From(k) ==
            IF k > Len(fields) THEN <<>>
            ELSE (IF fields[k].none THEN <<>> ELSE fields[k].items) \o From(k + 1)
    IN From(1)

Arguments_get_children(ns, self) ==
    SelectSeq(NodeNG_get_children(ns, self), LAMBDA child : child # 0)

Compare_get_children(ns, self) == <<ns[self].left>> \o ns[self].comparators

\* Dict.get_children yielding field by field: the keys, then the values.
Dict_get_children_by_field(ns, self) == ns[self].keys \o ns[self].values

\* zip(self.keys, self.values) stops with the shorter list.
Dict_get_children(ns, self) ==
    LET keys == ns[self].keys
        values == ns[self].values
        n == IF Len(keys) <= Len(values) THEN Len(keys) ELSE Len(values)
    IN [j \in 1..(2 * n) |-> IF j % 2 = 1 THEN keys[(j + 1) \div 2] ELSE values[j \div 2]]

-----------------------------------------------------------------------------
(* Comprehension *)

RECURSIVE statement(_, _)
\* base.NodeNG.statement(): the node itself if its class has is_statement
\* (the classes derived from Statement), else the statement of its parent.
statement(ns, self) ==
    IF ns[self].kind \in {"Assign", "Expr", "Pass", "If", "TryExcept", "TryFinally",
                          "ExceptHandler"} THEN self
    ELSE statement(ns, ns[self].parent)

\* _get_filtered_stmts without the isinstance test of lookup_node.
Comprehension__get_filtered_stmts_any(ns, self, lookup_node, node, stmts, mystmt) ==
    IF self = mystmt THEN [stmts |-> <<lookup_node>>, done |-> TRUE]
    ELSE IF statement(ns, self) = mystmt THEN [stmts |-> <<node>>, done |-> TRUE]
    ELSE [stmts |-> stmts, done |-> FALSE]

\* isinstance(lookup_node, (Const, Name)) holds of a NameConstant as well,
\* which derives from Const.
Comprehension__get_filtered_stmts(ns, self, lookup_node, node, stmts, mystmt) ==
    IF self = mystmt
    THEN IF ns[lookup_node].kind \in {"Const", "NameConstant", "Name"}
         THEN [stmts |-> <<lookup_node>>, done |-> TRUE]
         ELSE [stmts |-> stmts, done |-> FALSE]
    ELSE IF statement(ns, self) = mystmt
         THEN [stmts |-> <<node>>, done |-> TRUE]
         ELSE [stmts |-> stmts, done |-> FALSE]

-----------------------------------------------------------------------------
(* The trees the operations are called on *)

AB == <<"a", "b">>

\* Slice bounds written as literals, or left out.
ConstBounds == {Absent} \cup {ConstNode(IntV(i), 0) : i \in -MaxIdx .. MaxIdx}

\* What the inference engine may answer for a name used as a bound or key.
NameOutcomes ==
    { Inferred(<<CConst(IntV(1))>>, FALSE),
      Inferred(<<CConst(NoneV)>>, FALSE),
      Inferred(<<CConst(StrV(AB))>>, FALSE),
      Inferred(<<CInstance>>, FALSE),
      Inferred(<<CUninferable, CConst(IntV(1))>>, FALSE),
      Inferred(<<CConst(IntV(1))>>, TRUE),
      Inferred(<<>>, TRUE) }

FewBounds ==
    {Absent, ConstNode(StrV(AB), 0), NameNode(Inferred(<<CConst(IntV(1))>>, FALSE), 0)}

Present(b) == b.kind # "absent"
Count(b) == IF Present(b) THEN 1 ELSE 0

\* A Slice node at position base and its bound nodes after it.
SliceTree(base, parent, l, u, s) ==
    LET present == SelectSeq(<<l, u, s>>, Present)
    IN <<[Node("Slice", parent) EXCEPT
            !.lower = IF Present(l) THEN base + 1 ELSE 0,
            !.upper = IF Present(u) THEN base + 1 + Count(l) ELSE 0,
            !.step = IF Present(s) THEN base + 1 + Count(l) + Count(u) ELSE 0]>>
       \o [j \in 1..Len(present) |-> [present[j] EXCEPT !.parent = base]]

\* The values subscripted: list and tuple literals of n elements at position
\* 2, the elements after it, a string first and then integers.
Subscripted(n) ==
    {<<[Node(kind, 1) EXCEPT !.elts = [j \in 1..n |-> j + 2]]>>
       \o [j \in 1..n |-> ConstNode(IF j = 1 THEN StrV(AB) ELSE IntV(j), 2)] :
     kind \in {"List", "Tuple"}}

Constants == {<<ConstNode(v, 1)>> : v \in {StrV(AB), IntV(MaxElts), NoneV}}

\* value[slice]: node 1 is the Subscript, node 2 the value, with its
\* elements after it, then the index operand.
SubscriptTree(value, index) ==
    <<[Node("Subscript", 0) EXCEPT !.sub = 2, !.slice = Len(value) + 2]>>
    \o value \o index

\* Subscripts whose index operand is a literal, a name, or a slice of
\* literal bounds.
SeqTrees ==
    LET IndexTrees(base, parent) ==
            {<<ConstNode(v, parent)>> :
                v \in {IntV(i) : i \in -(MaxElts + 1) .. (MaxElts + 1)}
                         \cup {NoneV, StrV(AB)}}
                \cup {<<NameNode(Inferred(<<CConst(IntV(0))>>, FALSE), parent)>>}
                \cup {SliceTree(base, parent, l, u, s) :
                        l \in ConstBounds, u \in ConstBounds, s \in ConstBounds}
    IN UNION {{SubscriptTree(value, index) : index \in IndexTrees(Len(value) + 2, 1)} :
                 value \in UNION {Subscripted(n) : n \in 0..MaxElts} \cup Constants}

\* Subscripts whose index operand is a slice of literal and inferred bounds.
RichTrees ==
    LET RichBounds ==
            {Absent, ConstNode(IntV(1), 0), ConstNode(NoneV, 0), ConstNode(StrV(AB), 0)}
                \cup {NameNode(o, 0) : o \in NameOutcomes}
        RichIndexTrees(base, parent) ==
            {SliceTree(base, parent, l, u, s) :
                l \in RichBounds, u \in FewBounds, s \in FewBounds}
    IN UNION {{SubscriptTree(value, index) : index \in RichIndexTrees(Len(value) + 2, 1)} :
                 value \in Subscripted(MaxElts) \cup Constants}

(* Dict literals.  A pair is described by the shape of its key:             *)
(*   "const"   a literal key v, "name" a key the engine infers as inf,      *)
(*   "unpack"  a DictUnpack marker whose value is a Dict literal of the     *)
(*             pairs in inner.                                              *)

Pair(k, v, inf, inner) == [k |-> k, v |-> v, inf |-> inf, inner |-> inner]

KeyOutcomes ==
    { Inferred(<<CConst(IntV(1))>>, FALSE),
      Inferred(<<CUninferable>>, FALSE),
      Inferred(<<CUninferable, CConst(IntV(1))>>, FALSE),
      Inferred(<<CConst(IntV(2)), CConst(IntV(1))>>, FALSE),
      Inferred(<<CInstance>>, FALSE),
      Inferred(<<CConst(IntV(1))>>, TRUE),
      Inferred(<<>>, TRUE) }

UnpackPairs ==
    {Pair("unpack", NoneV, NoInference, <<>>)}
        \cup {Pair("unpack", NoneV, NoInference, <<p>>) :
                 p \in {Pair("const", IntV(i), NoInference, <<>>) : i \in 1..2}
                          \cup {Pair("name", NoneV, Inferred(<<CUninferable>>, FALSE),
                                      <<>>)}}

\* The key and value nodes of a literal or inferred key, at positions b, b+1.
SimpleBlock(p, b, parent) ==
    << IF p.k = "const" THEN ConstNode(p.v, parent) ELSE NameNode(p.inf, parent),
       ConstNode(IntV(b), parent) >>

\* The nodes of one pair, the key at position b and the value at b + 1.
PairBlock(p, b, parent) ==
    IF p.k \in {"const", "name"}
    THEN SimpleBlock(p, b, parent)
    ELSE <<Node("DictUnpack", parent),
           [Node("Dict", parent) EXCEPT
              !.keys = [j \in 1..Len(p.inner) |-> b + 2],
              !.values = [j \in 1..Len(p.inner) |-> b + 3]]>>
         \o (IF p.inner = <<>> THEN <<>> ELSE SimpleBlock(p.inner[1], b + 2, b + 1))

RECURSIVE PairBlocks(_, _, _)
PairBlocks(ps, b, parent) ==
    IF ps = <<>> THEN <<>>
    ELSE LET block == PairBlock(Head(ps), b, parent)
         IN block \o PairBlocks(Tail(ps), b + Len(block), parent)

RECURSIVE PairStarts(_, _)
PairStarts(ps, b) ==
    IF ps = <<>> THEN <<>>
    ELSE <<b>> \o PairStarts(Tail(ps), b + Len(PairBlock(Head(ps), b, 0)))

\* value[key] with value a dict literal: node 1 is the Subscript, node 2
\* the Dict, then the pairs, then the lookup key.
DictTree(ps, lookup) ==
    LET blocks == PairBlocks(ps, 3, 2)
        starts == PairStarts(ps, 3)
    IN <<[Node("Subscript", 0) EXCEPT !.sub = 2, !.slice = Len(blocks) + 3],
         [Node("Dict", 1) EXCEPT
            !.keys = starts,
            !.values = [j \in 1..Len(starts) |-> starts[j] + 1]]>>
       \o blocks \o <<lookup>>

RECURSIVE PairSeqs(_, _)
PairSeqs(pairs, n) ==
    IF n = 0 THEN {<<>>}
    ELSE PairSeqs(pairs, n - 1)
           \cup {Append(ps, p) : ps \in PairSeqs(pairs, n - 1), p \in pairs}

LookupKeys ==
    {ConstNode(IntV(1), 1), ConstNode(IntV(2), 1),
     NameNode(Inferred(<<CConst(IntV(1))>>, FALSE), 1)}

DictTrees ==
    LET SimplePairs ==
            {Pair("const", IntV(i), NoInference, <<>>) : i \in 1..2}
                \cup {Pair("name", NoneV, o, <<>>) : o \in KeyOutcomes}
    IN {DictTree(ps, lookup) :
           ps \in PairSeqs(SimplePairs \cup UnpackPairs, MaxPairs), lookup \in LookupKeys}

\* Dict literals with literal keys, one inferred key and unpacked mappings.
FewDictTrees ==
    LET pairs == {Pair("const", IntV(1), NoInference, <<>>),
                  Pair("name", NoneV,
                       Inferred(<<CUninferable, CConst(IntV(1))>>, FALSE), <<>>)}
                   \cup UnpackPairs
    IN {DictTree(ps, lookup) : ps \in PairSeqs(pairs, MaxPairs), lookup \in LookupKeys}

(* Compound statements, one statement or clause header per line from line  *)
(* 1 on.                                                                    *)

\* n simple statements, the first one node b on line l.
Stmts(n, b, l, parent) == [j \in 1..n |-> StmtNode("Pass", parent, l + j - 1, l + j - 1)]

Ids(n, b) == [j \in 1..n |-> b + j - 1]

RECURSIVE HandlerBlocks(_, _, _, _)
\* The handlers hs from node b and line l on: "except T:" (TRUE) or "except:"
\* (FALSE), each with a one-statement body.
HandlerBlocks(hs, b, l, parent) ==
    IF hs = <<>> THEN <<>>
    ELSE LET block ==
                 IF Head(hs)
                 THEN <<[StmtNode("ExceptHandler", parent, l, l + 1) EXCEPT
                           !.type = b + 1, !.body = <<b + 2>>],
                        StmtNode("Name", b, l, l),
                        StmtNode("Pass", b, l + 1, l + 1)>>
                 ELSE <<[StmtNode("ExceptHandler", parent, l, l + 1) EXCEPT
                           !.body = <<b + 1>>],
                        StmtNode("Pass", b, l + 1, l + 1)>>
         IN block \o HandlerBlocks(Tail(hs), b + Len(block), l + 2, parent)

RECURSIVE HandlerIds(_, _)
HandlerIds(hs, b) ==
    IF hs = <<>> THEN <<>>
    ELSE <<b>> \o HandlerIds(Tail(hs), b + (IF Head(hs) THEN 3 ELSE 2))

\* The nodes of a try/except whose node is b and whose "try:" is on line l:
\* one body statement, the handlers hs (TRUE for one with a type), then
\* "else:" and ne statements if ne > 0.
TryExceptBlock(hs, ne, b, l, parent) ==
    LET blocks == HandlerBlocks(hs, b + 2, l + 2, b)
        e == b + 2 + Len(blocks)
        end == l + 1 + 2 * Len(hs) + (IF ne = 0 THEN 0 ELSE 1 + ne)
    IN <<[StmtNode("TryExcept", parent, l, end) EXCEPT
            !.body = <<b + 1>>, !.handlers = HandlerIds(hs, b + 2),
            !.orelse = Ids(ne, e)],
         StmtNode("Pass", b, l + 1, l + 1)>>
       \o blocks \o Stmts(ne, e, l + 3 + 2 * Len(hs), b)

StmtTrees ==
    LET \* if t:       (1)   nb statements, then "else:" and ne statements if ne > 0
        IfTree(nb, ne) ==
            LET end == IF ne = 0 THEN 1 + nb ELSE 2 + nb + ne
            IN <<[StmtNode("If", 0, 1, end) EXCEPT
                    !.test = 2, !.body = Ids(nb, 3), !.orelse = Ids(ne, 3 + nb)],
                 StmtNode("Name", 1, 1, 1)>>
               \o Stmts(nb, 3, 2, 1) \o Stmts(ne, 3 + nb, 3 + nb, 1)
        \* try/finally around one statement, around a try/except that shares its
        \* first line ("same"), or around a try/except nested one line below.
        TryFinallyTree(shape) ==
            IF shape = "plain"
            THEN <<[StmtNode("TryFinally", 0, 1, 4) EXCEPT !.body = <<2>>, !.finalbody = <<3>>],
                   StmtNode("Pass", 1, 2, 2), StmtNode("Pass", 1, 4, 4)>>
            ELSE LET l == IF shape = "same" THEN 1 ELSE 2
                     inner == TryExceptBlock(<<TRUE>>, 0, 2, l, 1)
                 IN <<[StmtNode("TryFinally", 0, 1, l + 5) EXCEPT
                         !.body = <<2>>, !.finalbody = <<2 + Len(inner)>>]>>
                    \o inner \o <<StmtNode("Pass", 1, l + 5, l + 5)>>
    IN {IfTree(nb, ne) : nb \in 1..MaxStmts, ne \in 0..MaxStmts}
           \cup {TryExceptBlock(hs, ne, 1, 1, 0) :
                    hs \in {<<>>} \cup {<<t>> : t \in BOOLEAN}
                             \cup {<<t, u>> : t, u \in BOOLEAN},
                    ne \in 0..1}
           \cup {TryFinallyTree(shape) : shape \in {"plain", "same", "below"}}

\* The lines up to the last line of a statement, and one line beyond.
Lines(self) == 0..(nodes[self].tolineno + 1)

(* Calls f(...): node 1 is the Call, node 2 the function name, then the    *)
(* positional arguments ("name" or "star") and the keywords (a name, or     *)
(* None for **kw).                                                          *)

CallTrees ==
    LET CallTree(args, keywords) ==
            LET as == OrEmpty(args)
                ks == OrEmpty(keywords)
                built == <<CallNode(0), NameNode(NoInference, 1)>>
                           \o [j \in 1..Len(as) |->
                                 IF as[j] = "star" THEN Node("Starred", 1)
                                 ELSE NameNode(NoInference, 1)]
                           \o [j \in 1..Len(ks) |-> KeywordNode(ks[j], 1)]
            IN Call_postinit(built, 1, 2,
                             IF args = NoList THEN NoList ELSE ListOf(Ids(Len(as), 3)),
                             IF keywords = NoList THEN NoList
                             ELSE ListOf(Ids(Len(ks), 3 + Len(as))))
    IN {CallTree(args, keywords) :
           args \in {NoList, ListOf(<<>>), ListOf(<<"name">>), ListOf(<<"star">>),
                     ListOf(<<"name", "star">>), ListOf(<<"star", "star">>),
                     ListOf(<<"star", "name">>)},
           keywords \in {NoList, ListOf(<<>>), ListOf(<<StrV(AB)>>), ListOf(<<NoneV>>),
                         ListOf(<<StrV(AB), NoneV>>), ListOf(<<NoneV, NoneV>>)}}

\* An operation and what the engine yields for it: values, Uninferable and
\* markers.
OpTrees ==
    {<<[Node(kind, 0) EXCEPT !.inferred = o]>> :
        kind \in {"BinOp", "AugAssign", "UnaryOp"},
        o \in
          { Inferred(<<CConst(IntV(1))>>, FALSE),
            Inferred(<<CBadBinary(1)>>, FALSE),
            Inferred(<<CBadUnary(1)>>, FALSE),
            Inferred(<<CBadBinary(1), CUninferable, CBadBinary(2)>>, FALSE),
            Inferred(<<CConst(IntV(1)), CBadUnary(1), CBadUnary(2)>>, FALSE),
            Inferred(<<CBadBinary(1), CBadUnary(1)>>, TRUE),
            Inferred(<<>>, TRUE),
            Inferred(<<CUninferable>>, FALSE),
            Inferred(<<CBadBinary(2), CConst(IntV(1)), CBadBinary(1)>>, FALSE),
            Inferred(<<CBadUnary(2), CBadBinary(1), CBadUnary(1)>>, FALSE),
            Inferred(<<CBadBinary(1), CBadUnary(1)>>, FALSE),
            Inferred(<<CConst(IntV(1))>>, TRUE) }}

(* Parameter lists: node 1 is the Arguments, node 2 the Empty node, then    *)
(* the parameters.  A parameter is described by its name and its default:   *)
(* "none" (None), "empty" (the Empty node), "const" (a Const); "tuple" is a *)
(* tuple parameter (a, ) holding one parameter of that name.                *)

Param(name, default) == [name |-> name, default |-> default]

ParamBlock(p, b, parent) ==
    CASE p.default = "tuple" ->
             <<[Node("Tuple", parent) EXCEPT !.elts = <<b + 1>>],
               ParameterNode(p.name, b)>>
      [] p.default = "const" ->
             Parameter_postinit(<<ParameterNode(p.name, parent), ConstNode(IntV(1), b)>>,
                                1, b + 1, 2)
      [] p.default = "empty" ->
             Parameter_postinit(<<ParameterNode(p.name, parent)>>, 1, 2, 2)
      [] OTHER -> <<ParameterNode(p.name, parent)>>

RECURSIVE ParamBlocks(_, _, _)
ParamBlocks(ps, b, parent) ==
    IF ps = <<>> THEN <<>>
    ELSE LET block == ParamBlock(Head(ps), b, parent)
         IN block \o ParamBlocks(Tail(ps), b + Len(block), parent)

RECURSIVE ParamIds(_, _)
ParamIds(ps, b) ==
    IF ps = <<>> THEN <<>>
    ELSE <<b>> \o ParamIds(Tail(ps), b + Len(ParamBlock(Head(ps), b, 0)))

RECURSIVE ParamSeqs(_)
ParamSeqs(n) ==
    IF n = 0 THEN {<<>>}
    ELSE ParamSeqs(n - 1)
           \cup {Append(ps, p) :
                   ps \in ParamSeqs(n - 1),
                   p \in {Param("a", "const"), Param("a", "empty"), Param("b", "none"),
                          Param("b", "const"), Param("b", "tuple")}}

ArgumentsTrees ==
    LET \* A vararg or kwarg: None, the Empty node, or a parameter.
        StarId(p, b) == IF p = "none" THEN 0 ELSE IF p = "empty" THEN 2 ELSE b
        ArgumentsTree(args, positional_only, keyword_only, vararg, kwarg) ==
            LET ps == args \o positional_only \o keyword_only
                blocks == ParamBlocks(ps, 3, 1)
                ids == ParamIds(ps, 3)
                v == 3 + Len(blocks)
                k == v + (IF vararg \in {"none", "empty"} THEN 0 ELSE 1)
                built == <<ArgumentsNode(0), EmptyNode>> \o blocks
                           \o (IF vararg \in {"none", "empty"} THEN <<>>
                               ELSE <<ParameterNode(vararg, 1)>>)
                           \o (IF kwarg \in {"none", "empty"} THEN <<>>
                               ELSE <<ParameterNode(kwarg, 1)>>)
            IN Arguments_postinit(built, 1,
                                  SubSeq(ids, 1, Len(args)),
                                  StarId(vararg, v), StarId(kwarg, k),
                                  SubSeq(ids, Len(args) + Len(positional_only) + 1, Len(ps)),
                                  SubSeq(ids, Len(args) + 1, Len(args) + Len(positional_only)))
    IN {ArgumentsTree(args, positional_only, keyword_only, vararg, kwarg) :
           args \in ParamSeqs(MaxArgs),
           positional_only \in {<<>>, <<Param("b", "const")>>},
           keyword_only \in {<<>>, <<Param("a", "const")>>, <<Param("b", "empty")>>,
                             <<Param("k", "const")>>},
           vararg \in {"none", "empty", "v"},
           kwarg \in {"none", "w"}}

ArgNames == {"a", "b", "k", "v", "w", "z"}

\* [(), {c}, {}][lower:]: node 1 is the Subscript, node 2 the List, nodes 3
\* to 6 the Tuple, the Set with its element and the Dict, node 7 the Slice
\* and node 8 its lower bound.
ProxiedTrees ==
    {<<[Node("Subscript", 0) EXCEPT !.sub = 2, !.slice = 7],
       [Node("List", 1) EXCEPT !.elts = <<3, 4, 6>>],
       Node("Tuple", 2),
       [Node("Set", 2) EXCEPT !.elts = <<5>>],
       ConstNode(c, 4),
       Node("Dict", 2),
       [Node("Slice", 1) EXCEPT !.lower = 8],
       ConstNode(lower, 7)>> :
     c \in {IntV(1), StrV(AB)}, lower \in {IntV(1), NoneV}}

-----------------------------------------------------------------------------
(* The calls *)

Contexts == {"None", "ctx"}

NodeIds == 1..Len(nodes)
OfKind(kind) == {n \in NodeIds : nodes[n].kind = kind}

\* The index operand of some subscript of the tree.
IndexArgs == {nodes[s].slice : s \in OfKind("Subscript")}

\* The nodes subscripted: the value operand of a subscript, or the node the
\* previous call returned (a chained subscript).
Receivers(kind) ==
    {n \in {nodes[s].sub : s \in OfKind("Subscript")} \cup ({last.node} \ {0}) :
        nodes[n].kind = kind}

NoCall ==
    [op |-> "none", self |-> 0, index |-> 0, attrname |-> "", context |-> "None",
     outcome |-> "return", node |-> 0, value |-> NoneV, slice |-> <<>>,
     inferctx |-> {}, nested |-> <<>>, excarg |-> 0, created |-> 0,
     lineno |-> 0, name |-> "", result |-> <<>>, truth |-> FALSE,
     registry |-> <<>>, stub |-> "", args |-> <<>>]

CallOf(op, self, index, context) ==
    [NoCall EXCEPT !.op = op, !.self = self, !.index = index, !.context = context]

\* A call that ended as r: the heap becomes r.heap.
Commit(call, r) ==
    /\ allocs + (Len(r.heap) - Len(nodes)) <= MaxAllocs
    /\ nodes' = r.heap
    /\ allocs' = allocs + (Len(r.heap) - Len(nodes))
    /\ postinits' = [n \in 1..Len(r.heap) |->
                        IF n <= Len(postinits) THEN postinits[n] ELSE 0]
    /\ lookups' = [n \in 1..Len(r.heap) |->
                      (IF n <= Len(lookups) THEN lookups[n] ELSE 0)
                        + Cardinality({k \in 1..Len(r.registry) : r.registry[k] = n})]
    /\ \A n \in 1..Len(r.heap) : lookups'[n] <= MaxLookups
    /\ last' = [call EXCEPT !.outcome = r.outcome, !.node = r.node,
                            !.inferctx = r.inferctx, !.nested = r.nested,
                            !.excarg = r.excarg,
                            !.registry = r.registry, !.stub = r.stub,
                            !.created = Len(r.heap) - Len(nodes)]

CallListGetitem ==
    \E self \in Receivers("List"), index \in IndexArgs, context \in Contexts :
        Commit(CallOf("List.getitem", self, index, context),
               List_getitem(nodes, self, index, context))

CallTupleGetitem ==
    \E self \in Receivers("Tuple"), index \in IndexArgs, context \in Contexts :
        Commit(CallOf("Tuple.getitem", self, index, context),
               Tuple_getitem(nodes, self, index, context))

CallConstGetitem ==
    \E self \in Receivers("Const"), index \in IndexArgs, context \in Contexts :
        Commit(CallOf("Const.getitem", self, index, context),
               Const_getitem(nodes, self, index, context))

CallDictGetitem ==
    \E self \in Receivers("Dict"), lookup_key \in IndexArgs, context \in Contexts :
        Commit(CallOf("Dict.getitem", self, lookup_key, context),
               Dict_getitem(nodes, self, lookup_key, context))

CallSliceIgetattr ==
    \E self \in OfKind("Slice"), attrname \in {"start", "stop", "step", "indices"},
       context \in Contexts :
        Commit([CallOf("Slice.igetattr", self, 0, context) EXCEPT !.attrname = attrname],
               Slice_igetattr(nodes, self, attrname, context))

\* A read of node._proxied.
Read_proxied ==
    \E self \in {n \in NodeIds :
                   nodes[n].kind \in {"Const", "Dict", "List", "Set", "Slice", "Tuple"}} :
        Commit(CallOf("_proxied", self, 0, "None"), proxied(nodes, self))

Call_slice_value ==
    \E node \in OfKind("Slice"), context \in Contexts :
      \E index \in {nodes[node].lower, nodes[node].upper, nodes[node].step} :
        LET r == _slice_value(nodes, index, context)
        IN /\ last' = [CallOf("_slice_value", 0, index, context) EXCEPT
                         !.value = r.value, !.inferctx = r.inferctx]
           /\ UNCHANGED <<nodes, allocs, postinits, lookups>>

Call_infer_slice ==
    \E node \in OfKind("Slice"), context \in Contexts :
        LET r == _infer_slice(nodes, node, context)
        IN /\ last' = [CallOf("_infer_slice", 0, node, context) EXCEPT
                         !.outcome = IF r.ok THEN "return" ELSE "TypeError",
                         !.slice = IF r.ok THEN <<r.lower, r.upper, r.step>> ELSE <<>>,
                         !.inferctx = r.inferctx]
           /\ UNCHANGED <<nodes, allocs, postinits, lookups>>

\* A call that only reads the tree.
Query(call) ==
    /\ last' = call
    /\ UNCHANGED <<nodes, allocs, postinits, lookups>>

\* The statements that are in a child sequence of another node.
Statements ==
    {n \in NodeIds : nodes[n].kind \in {"Pass", "ExceptHandler", "TryExcept"}
                     /\ nodes[n].parent # 0}

CallNextSibling ==
    \E self \in Statements :
        Query([CallOf("next_sibling", self, 0, "None") EXCEPT
                 !.node = Statement_next_sibling(nodes, self)])

CallPreviousSibling ==
    \E self \in Statements :
        Query([CallOf("previous_sibling", self, 0, "None") EXCEPT
                 !.node = Statement_previous_sibling(nodes, self)])

CallIfBlockRange ==
    \E self \in OfKind("If") : \E lineno \in Lines(self) :
        Query([CallOf("If.block_range", self, 0, "None") EXCEPT
                 !.lineno = lineno, !.result = If_block_range(nodes, self, lineno)])

CallTryExceptBlockRange ==
    \E self \in OfKind("TryExcept") : \E lineno \in Lines(self) :
        Query([CallOf("TryExcept.block_range", self, 0, "None") EXCEPT
                 !.lineno = lineno,
                 !.result = TryExcept_block_range(nodes, self, lineno)])

CallTryFinallyBlockRange ==
    \E self \in OfKind("TryFinally") : \E lineno \in Lines(self) :
        Query([CallOf("TryFinally.block_range", self, 0, "None") EXCEPT
                 !.lineno = lineno,
                 !.result = TryFinally_block_range(nodes, self, lineno)])

CallStarargs ==
    \E self \in OfKind("Call") :
        Query([CallOf("Call.starargs", self, 0, "None") EXCEPT
                 !.result = Call_starargs(nodes, self)])

CallKwargs ==
    \E self \in OfKind("Call") :
        Query([CallOf("Call.kwargs", self, 0, "None") EXCEPT
                 !.result = Call_kwargs(nodes, self)])

CallDefaultValue ==
    \E self \in OfKind("Arguments"), argname \in ArgNames :
        Commit([CallOf("Arguments.default_value", self, 0, "None") EXCEPT
                  !.name = argname],
               Arguments_default_value(nodes, self, argname))

CallIsArgument ==
    \E self \in OfKind("Arguments"), name \in ArgNames :
        Query([CallOf("Arguments.is_argument", self, 0, "None") EXCEPT
                 !.name = name, !.truth = Arguments_is_argument(nodes, self, name)])

CallBinOpTypeErrors ==
    \E self \in OfKind("BinOp"), context \in Contexts :
        LET r == BinOp_type_errors(nodes, self, context)
        IN Query([CallOf("BinOp.type_errors", self, 0, context) EXCEPT
                    !.inferctx = {context},
                    !.outcome = r.outcome, !.result = r.result])

CallAugAssignTypeErrors ==
    \E self \in OfKind("AugAssign"), context \in Contexts :
        LET r == AugAssign_type_errors(nodes, self, context)
        IN Query([CallOf("AugAssign.type_errors", self, 0, context) EXCEPT
                    !.inferctx = {context},
                    !.outcome = r.outcome, !.result = r.result])

CallUnaryOpTypeErrors ==
    \E self \in OfKind("UnaryOp"), context \in Contexts :
        LET r == UnaryOp_type_errors(nodes, self, context)
        IN Query([CallOf("UnaryOp.type_errors", self, 0, context) EXCEPT
                    !.inferctx = {context},
                    !.outcome = r.outcome, !.result = r.result])

\* The sequences over the given nodes, up to length n.
RECURSIVE ChildLists(_, _)
ChildLists(ids, n) ==
    IF n = 0 THEN {<<>>}
    ELSE ChildLists(ids, n - 1)
           \cup {Append(l, c) : l \in ChildLists(ids, n - 1), c \in ids}

Distinct(l) == \A i, j \in 1..Len(l) : l[i] = l[j] => i = j

\* A postinit call: it returns None, and nothing in it looks at whether the
\* node was initialised before.
CommitPostinit(call, heap) ==
    /\ postinits[call.self] < MaxPostinits
    /\ nodes' = heap
    /\ postinits' = [postinits EXCEPT ![call.self] = @ + 1]
    /\ last' = call
    /\ UNCHANGED <<allocs, lookups>>

CallAssignPostinit ==
    \E self \in OfKind("Assign"),
       targets \in {NoList} \cup {ListOf(l) : l \in ChildLists(OfKind("Name"), 2)},
       value \in {0} \cup OfKind("Const") :
        /\ targets # NoList => Distinct(targets[1])
        /\ CommitPostinit(CallOf("Assign.postinit", self, 0, "None"),
                          Assign_postinit(nodes, self, targets, value))

CallArgumentsPostinit ==
    \E self \in OfKind("Arguments"),
       args \in ChildLists(OfKind("Parameter"), 2),
       vararg \in {0} \cup OfKind("Parameter"),
       kwarg \in {0} \cup OfKind("Parameter"),
       keyword_only \in ChildLists(OfKind("Parameter"), 1),
       positional_only \in ChildLists(OfKind("Parameter"), 1) :
        /\ Distinct(args \o keyword_only \o positional_only
                      \o SelectSeq(<<vararg, kwarg>>, LAMBDA c : c # 0))
        /\ CommitPostinit(CallOf("Arguments.postinit", self, 0, "None"),
                          Arguments_postinit(nodes, self, args, vararg, kwarg,
                                             keyword_only, positional_only))

Fresh(trees) ==
    /\ nodes \in trees
    /\ last = NoCall
    /\ allocs = 0
    /\ postinits = [n \in 1..Len(nodes) |-> 1]
    /\ lookups = [n \in 1..Len(nodes) |-> 0]

\* The queries of the node classes, on every tree.
Init ==
    Fresh(SeqTrees \cup RichTrees \cup FewDictTrees \cup StmtTrees \cup CallTrees
            \cup ArgumentsTrees \cup OpTrees)

Next ==
    \/ CallListGetitem
    \/ CallTupleGetitem
    \/ CallConstGetitem
    \/ CallDictGetitem
    \/ CallSliceIgetattr
    \/ CallNextSibling
    \/ CallPreviousSibling
    \/ CallIfBlockRange
    \/ CallTryExceptBlockRange
    \/ CallTryFinallyBlockRange
    \/ CallStarargs
    \/ CallKwargs
    \/ CallDefaultValue
    \/ CallIsArgument
    \/ CallBinOpTypeErrors
    \/ CallAugAssignTypeErrors
    \/ CallUnaryOpTypeErrors

Spec == Init /\ [][Next]_vars

\* Subscripts of list, tuple and string literals.
NextSeq ==
    \/ CallListGetitem
    \/ CallTupleGetitem
    \/ CallConstGetitem

SpecSeq == Fresh(SeqTrees \cup RichTrees) /\ [][NextSeq]_vars

\* Slices whose bounds need inference, and what is subscripted with them.
NextSlice ==
    \/ Call_slice_value
    \/ Call_infer_slice
    \/ CallListGetitem
    \/ CallTupleGetitem
    \/ CallConstGetitem

SpecSlice == Fresh(RichTrees) /\ [][NextSlice]_vars

\* Subscripts of dict literals.
NextDict ==
    \/ CallDictGetitem
    \/ CallConstGetitem

SpecDict == Fresh(DictTrees) /\ [][NextDict]_vars

\* Nodes just constructed, their postinit still to be called: the statement
\* a = b = 1 and the parameters of def f(a, b, c).
InitPostinit ==
    /\ nodes \in
         { <<AssignNode(0), NameNode(NoInference, 1), NameNode(NoInference, 1),
             ConstNode(IntV(1), 1), ConstNode(IntV(2), 1)>>,
           <<ArgumentsNode(0), ParameterNode("a", 1), ParameterNode("b", 1),
             ParameterNode("c", 1)>> }
    /\ last = NoCall
    /\ allocs = 0
    /\ postinits = [n \in 1..Len(nodes) |-> 0]
    /\ lookups = [n \in 1..Len(nodes) |-> 0]

NextPostinit ==
    \/ CallAssignPostinit
    \/ CallArgumentsPostinit

SpecPostinit == InitPostinit /\ [][NextPostinit]_vars

\* The queries of statements.
NextStmt ==
    \/ CallNextSibling
    \/ CallPreviousSibling
    \/ CallIfBlockRange
    \/ CallTryExceptBlockRange
    \/ CallTryFinallyBlockRange

SpecStmt == Fresh(StmtTrees) /\ [][NextStmt]_vars

\* type_errors of the operator nodes.
NextOp ==
    \/ CallBinOpTypeErrors
    \/ CallAugAssignTypeErrors
    \/ CallUnaryOpTypeErrors

SpecOp == Fresh(OpTrees) /\ [][NextOp]_vars

\* Reads of the builtin-type proxy of the nodes of an expression.
NextProxied ==
    \/ Read_proxied
    \/ CallSliceIgetattr

SpecProxied == Fresh(ProxiedTrees) /\ [][NextProxied]_vars

\* node.get_children(), for the nodes whose child fields the trees fill in.
CallGetChildren ==
    \E self \in {n \in NodeIds :
                   nodes[n].kind \in {"Parameter", "Arguments", "Call", "Compare", "Dict",
                                      "ExceptHandler", "If", "List", "Set", "Tuple",
                                      "Slice", "Subscript", "TryExcept", "TryFinally"}} :
        Query([CallOf("get_children", self, 0, "None") EXCEPT
                 !.result =
                     CASE nodes[self].kind = "Arguments" -> Arguments_get_children(nodes, self)
                       [] nodes[self].kind = "Compare" -> Compare_get_children(nodes, self)
                       [] nodes[self].kind = "Dict" -> Dict_get_children(nodes, self)
                       [] OTHER -> NodeNG_get_children(nodes, self)])

\* Traversal of the trees above and of comparisons l < c1 < ... with up to
\* two comparators, with and without the left operand.
SpecChildren ==
    /\ Fresh(RichTrees \cup FewDictTrees \cup StmtTrees \cup CallTrees \cup ArgumentsTrees
               \cup {<<[CompareNode(0) EXCEPT
                          !.left = IF hasleft THEN 2 ELSE 0,
                          !.comparators = Ids(n, IF hasleft THEN 3 ELSE 2)]>>
                       \o [j \in 1..(n + (IF hasleft THEN 1 ELSE 0)) |->
                             NameNode(NoInference, 1)] :
                     hasleft \in BOOLEAN, n \in 0..2})
    /\ [][CallGetChildren]_vars

\* self._get_filtered_stmts(lookup_node, node, stmts, mystmt) of a
\* comprehension, as filter_stmts calls it: mystmt is the statement of a
\* node or a comprehension, node a statement or the list.
CallGetFilteredStmts ==
    \E self \in OfKind("Comprehension"), lookup_node \in NodeIds,
       node \in {n \in NodeIds : nodes[n].parent = 0 \/ nodes[n].kind = "ListComp"},
       mystmt \in {n \in NodeIds : nodes[n].parent = 0 \/ nodes[n].kind = "Comprehension"} :
      \E stmts \in {<<>>, <<lookup_node, mystmt>>} :
        LET r == Comprehension__get_filtered_stmts(nodes, self, lookup_node, node,
                                                   stmts, mystmt)
        IN Query([CallOf("Comprehension._get_filtered_stmts", self, 0, "None") EXCEPT
                    !.args = [lookup_node |-> lookup_node, node |-> node,
                              stmts |-> stmts, mystmt |-> mystmt],
                    !.result = r.stmts, !.truth = r.done])

\* s = [e for t in i if c for t in i] or that list as an expression
\* statement, followed by a statement holding a constant: node 1 is the
\* statement, node 2 the ListComp, nodes 3 and 6 its comprehensions, nodes 4
\* and 5 the iter and the condition of the first, node 7 the second
\* statement and node 8 its constant.
SpecComp ==
    /\ Fresh({<<Node(stmt, 0), Node("ListComp", 1),
                Node("Comprehension", 2), NameNode(NoInference, 3), Node(cond, 3),
                Node("Comprehension", 2),
                Node("Pass", 0), ConstNode(IntV(1), 7)>> :
              stmt \in {"Assign", "Expr"}, cond \in {"NameConstant", "Compare"}})
    /\ [][CallGetFilteredStmts]_vars

\* The queries of parameter lists.
SpecArgs == Fresh(ArgumentsTrees) /\ [][CallDefaultValue \/ CallIsArgument]_vars

\* Subscripts of constants: a string, a bytes object, an integer and None,
\* with an index that is a literal, a name, or a slice of literal and
\* inferred bounds.
SpecConst ==
    /\ Fresh(LET bounds ==
                     ConstBounds
                       \cup {ConstNode(StrV(AB), 0),
                             NameNode(Inferred(<<CConst(IntV(1))>>, FALSE), 0),
                             NameNode(Inferred(<<CInstance>>, FALSE), 0),
                             NameNode(Inferred(<<>>, TRUE), 0)}
                 indexes ==
                     {<<ConstNode(v, 1)>> :
                         v \in {IntV(i) : i \in -(MaxElts + 1) .. (MaxElts + 1)}
                                  \cup {NoneV, StrV(AB)}}
                       \cup {<<NameNode(Inferred(<<CConst(IntV(0))>>, FALSE), 1)>>}
                       \cup {SliceTree(3, 1, l, u, s) :
                               l \in bounds, u \in bounds, s \in bounds}
             IN {SubscriptTree(<<ConstNode(v, 1)>>, index) :
                   v \in {StrV(AB), BytesV(<<97, 98>>), IntV(MaxElts), NoneV},
                   index \in indexes})
    /\ [][CallConstGetitem]_vars

-----------------------------------------------------------------------------
(* Properties *)

SeqGetitem == {"List.getitem", "Tuple.getitem"}

\* The elements of the container the last call was made on.
SelfElts == nodes[last.self].elts

(* C1: List.getitem and Tuple.getitem with a Const index holding an integer *)
(* i return the element node at position i itself (at len + i for negative  *)
(* i) without creating a node when -len <= i < len, and fail with           *)
(* IndexError, returning no node, for any other integer.                    *)
C1_IndexReturnsElement ==
    (last.op \in SeqGetitem /\ nodes[last.index].kind = "Const"
        /\ nodes[last.index].value.t = "int")
    => LET i == nodes[last.index].value.i
           len == Len(SelfElts)
       IN IF -len <= i /\ i < len
          THEN /\ last.outcome = "return"
               /\ last.node = SelfElts[IF i >= 0 THEN i + 1 ELSE len + i + 1]
               /\ last.created = 0
          ELSE /\ last.outcome = "IndexError"
               /\ last.node = 0

\* A negative index in range was used and the element came back.
C1_Witness ==
    /\ last.op \in SeqGetitem
    /\ nodes[last.index].kind = "Const"
    /\ nodes[last.index].value.t = "int"
    /\ nodes[last.index].value.i < 0
    /\ last.outcome = "return"
    /\ Len(SelfElts) = MaxElts

\* A bound written as a literal integer or None, or left out.
LiteralBound(b) == b = 0 \/ (nodes[b].kind = "Const" /\ IsIntOrNone(nodes[b].value))
BoundValue(b) == IF b = 0 THEN NoneV ELSE nodes[b].value

Max(a, b) == IF a > b THEN a ELSE b

\* seq[lo:up:st] as the language defines it, for a step other than 0: the
\* positions from the start bound towards the stop bound, step apart.
NativeSlice(seq, lo, up, st) ==
    LET len == Len(seq)
        step == IF st.t = "none" THEN 1 ELSE st.i
        Abs(x) == IF x < 0 THEN x + len ELSE x
        Clamp(x) == IF step > 0 THEN Max(0, Min(len, Abs(x)))
                    ELSE Max(-1, Min(len - 1, Abs(x)))
        start == IF lo.t = "none" THEN (IF step > 0 THEN 0 ELSE len - 1) ELSE Clamp(lo.i)
        stop == IF up.t = "none" THEN (IF step > 0 THEN len ELSE -1) ELSE Clamp(up.i)
        taken == {k \in 0..(len - 1) :
                    IF step > 0
                    THEN k >= start /\ k < stop /\ (k - start) % step = 0
                    ELSE k <= start /\ k > stop /\ (start - k) % (-step) = 0}
    IN [j \in 1..Cardinality(taken) |-> seq[start + (j - 1) * step + 1]]

\* The last call subscripted a list or tuple with a slice of literal bounds.
LiteralSliceCall ==
    /\ last.op \in SeqGetitem
    /\ nodes[last.index].kind = "Slice"
    /\ LiteralBound(nodes[last.index].lower)
    /\ LiteralBound(nodes[last.index].upper)
    /\ LiteralBound(nodes[last.index].step)

\* The call returned a new node of the receiver's class holding the slice
\* of its elements, with the receiver's parent as parent.
ReturnedSlicedCopy ==
    /\ last.outcome = "return"
    /\ last.created = 1
    /\ last.node = Len(nodes)
    /\ nodes[last.node].kind = nodes[last.self].kind
    /\ nodes[last.node].parent = nodes[last.self].parent
    /\ nodes[last.node].parent # last.self
    /\ nodes[last.node].elts =
          NativeSlice(SelfElts, BoundValue(nodes[last.index].lower),
                      BoundValue(nodes[last.index].upper),
                      BoundValue(nodes[last.index].step))

ZeroStep == PyEq(BoundValue(nodes[last.index].step), IntV(0))

(* C2 as claimed: List.getitem and Tuple.getitem with a Slice whose bounds  *)
(* are each absent or a Const holding an int or None return a new node of   *)
(* the same class whose elts are elts[lower:upper:step] and whose parent is *)
(* the receiver's parent, not the receiver.                                 *)
C2_SliceReturnsCopy == LiteralSliceCall => ReturnedSlicedCopy

(* C2 as amended: the same, for a step other than 0; with a step of 0 the   *)
(* call fails with ValueError, returns no node and adds none to the tree.   *)
C2_SliceReturnsCopyNonZeroStep ==
    LiteralSliceCall =>
        IF ZeroStep
        THEN last.outcome = "ValueError" /\ last.node = 0 /\ last.created = 0
        ELSE ReturnedSlicedCopy

\* A whole literal was reversed with a step of -1.
C2_Witness ==
    /\ LiteralSliceCall
    /\ PyEq(BoundValue(nodes[last.index].step), IntV(-1))
    /\ last.outcome = "return"
    /\ Len(nodes[last.node].elts) = MaxElts
    /\ nodes[last.node].elts # SelfElts

-----------------------------------------------------------------------------
(* Dict.getitem *)

DictCall == last.op = "Dict.getitem"

IsUnpack(d, i) == nodes[nodes[d].keys[i]].kind = "DictUnpack"

\* Pair i of dict d has an ordinary key with an inferred Const equal to the
\* Const looked up.
InfersEqual(d, i) ==
    /\ ~IsUnpack(d, i)
    /\ nodes[last.index].kind = "Const"
    /\ \E j \in 1..Len(infer(nodes, nodes[d].keys[i]).cands) :
          LET cand == infer(nodes, nodes[d].keys[i]).cands[j]
          IN cand.c = "Const" /\ PyEq(cand.value, nodes[last.index].value)

\* Inferring the ordinary key of pair i ends in InferenceError without a match.
KeyRaises(d, i) ==
    ~IsUnpack(d, i) /\ ~InfersEqual(d, i) /\ infer(nodes, nodes[d].keys[i]).err

PairIds(d) == 1..Len(nodes[d].keys)
MatchingPairs(d) == {i \in PairIds(d) : InfersEqual(d, i)}
FirstMatch(d) == CHOOSE i \in MatchingPairs(d) : \A j \in MatchingPairs(d) : i <= j

\* The nested lookups made by dict d itself during the last call, in order.
NestedBy(d) == SelectSeq(last.nested, LAMBDA c : c.by = d)

\* The unpack pairs of dict d up to pair i.
UnpacksUpTo(d, i) == {h \in 1..i : IsUnpack(d, h)}

\* The lookup in the mapping unpacked by pair h of d ended with IndexError.
UnpackMisses(d, h) ==
    getitem(nodes, nodes[d].values[h], last.index, last.context).outcome = "IndexError"

\* Nothing before pair i stops the scan of dict d.
ScanReaches(d, i) ==
    \A h \in 1..(i - 1) :
        /\ ~InfersEqual(d, h)
        /\ ~KeyRaises(d, h)
        /\ IsUnpack(d, h) => UnpackMisses(d, h)

(* C3 as claimed: when two ordinary keys of the dict infer to Const values  *)
(* equal to the Const looked up, getitem returns the value node paired with *)
(* the earlier one.                                                         *)
C3_FirstEqualKeyWins ==
    (DictCall /\ Cardinality(MatchingPairs(last.self)) >= 2)
    => /\ last.outcome = "return"
       /\ last.node = nodes[last.self].values[FirstMatch(last.self)]

(* C3 as amended: the same, provided the scan reaches the earlier key  (no  *)
(* earlier DictUnpack pair whose nested lookup ends other than with         *)
(* IndexError, no earlier key whose inference raises InferenceError); and   *)
(* in no case is the value of a later equal key returned.                   *)
C3_FirstEqualKeyWinsWhenReached ==
    (DictCall /\ Cardinality(MatchingPairs(last.self)) >= 2)
    => LET d == last.self
       IN /\ ScanReaches(d, FirstMatch(d))
             => /\ last.outcome = "return"
                /\ last.node = nodes[d].values[FirstMatch(d)]
          /\ \A j \in MatchingPairs(d) \ {FirstMatch(d)} :
                last.node # nodes[d].values[j]

\* Two literal keys equal to the key looked up, after an unpacked mapping
\* without it, and the first one's value returned.
C3_Witness ==
    /\ DictCall
    /\ Cardinality(MatchingPairs(last.self)) >= 2
    /\ FirstMatch(last.self) > 1
    /\ last.outcome = "return"
    /\ last.node = nodes[last.self].values[FirstMatch(last.self)]

\* The k-th DictUnpack pair of dict d.
UnpackIdx(d, k) ==
    CHOOSE i \in PairIds(d) : IsUnpack(d, i) /\ Cardinality(UnpacksUpTo(d, i)) = k

\* The scan of dict d goes on with pair j, as far as the call's outcome and
\* its nested lookups show it.
Continues(d, j) ==
    IF j > Len(nodes[d].keys) THEN last.outcome = "IndexError"
    ELSE IF IsUnpack(d, j)
    THEN Len(NestedBy(d)) >= Cardinality(UnpacksUpTo(d, j))
    ELSE IF InfersEqual(d, j)
    THEN last.outcome = "return" /\ last.node = nodes[d].values[j]
    ELSE KeyRaises(d, j) => last.outcome = "InferenceError"

(* C4: the lookups a dict makes in unpacked mappings are made on the value  *)
(* of each DictUnpack pair the scan reaches, in source order, with the key  *)
(* and the context of the call; after one that ends with IndexError the     *)
(* scan goes on with the next pair; one that returns ends the call with its *)
(* result, whatever the later pairs are.                                    *)
C4_UnpackRecursion ==
    DictCall
    => LET d == last.self
           calls == NestedBy(d)
       IN /\ Len(calls) <= Cardinality(UnpacksUpTo(d, Len(nodes[d].keys)))
          /\ \A k \in 1..Len(calls) :
                LET i == UnpackIdx(d, k)
                IN /\ calls[k].recv = nodes[d].values[i]
                   /\ calls[k].key = last.index
                   /\ calls[k].ctx = last.context
                   /\ calls[k].outcome = "IndexError" => Continues(d, i + 1)
                   /\ calls[k].outcome = "return"
                      => /\ k = Len(calls)
                         /\ last.outcome = "return"
                         /\ last.node = calls[k].node
                   /\ k < Len(calls) => calls[k].outcome = "IndexError"
          /\ \A i \in PairIds(d) :
                (IsUnpack(d, i) /\ ScanReaches(d, i))
                => Len(calls) >= Cardinality(UnpacksUpTo(d, i))

\* {**{}, **{1: v}, 1: w}[1]: the first unpacked mapping misses, the second
\* one answers, and the literal key after it is not looked at.
C4_Witness ==
    /\ DictCall
    /\ Len(nodes[last.self].keys) = 3
    /\ Len(NestedBy(last.self)) = 2
    /\ NestedBy(last.self)[1].outcome = "IndexError"
    /\ NestedBy(last.self)[2].outcome = "return"
    /\ last.outcome = "return"
    /\ last.node = NestedBy(last.self)[2].node
    /\ InfersEqual(last.self, 3)
    /\ last.context = "ctx"

RECURSIVE AnyPairMatches(_)
\* Some pair of dict d, or of a mapping it unpacks, has a key that matches.
AnyPairMatches(d) ==
    \E i \in PairIds(d) :
        IF IsUnpack(d, i)
        THEN nodes[nodes[d].values[i]].kind = "Dict"
             /\ AnyPairMatches(nodes[d].values[i])
        ELSE InfersEqual(d, i)

RECURSIVE AnyKeyRaises(_)
\* Inferring some key of dict d, or of a mapping it unpacks, raises.
AnyKeyRaises(d) ==
    \E i \in PairIds(d) :
        IF IsUnpack(d, i)
        THEN nodes[nodes[d].values[i]].kind = "Dict"
             /\ AnyKeyRaises(nodes[d].values[i])
        ELSE infer(nodes, nodes[d].keys[i]).err

-----------------------------------------------------------------------------
(* Slice bounds *)

UsableConst(c) == c.c = "Const" /\ IsIntOrNone(c.value)

\* What the bound b of a slice stands for: None when left out, the value of
\* an int or None literal, the value of the first inferred candidate when
\* that is an int or None constant, and the sentinel otherwise.
BoundTable(b) ==
    IF b = 0 THEN NoneV
    ELSE IF nodes[b].kind = "Const"
    THEN (IF IsIntOrNone(nodes[b].value) THEN nodes[b].value ELSE _SLICE_SENTINEL)
    ELSE IF /\ Len(infer(nodes, b).cands) >= 1
            /\ UsableConst(infer(nodes, b).cands[1])
    THEN infer(nodes, b).cands[1].value
    ELSE _SLICE_SENTINEL

(* C6: _slice_value(bound) is None for a bound left out, the value of a     *)
(* Const bound holding an int or None, the value of the first candidate of  *)
(* bound.infer(context) when that is such a Const, and the sentinel in      *)
(* every other case; later candidates are never consulted.                  *)
C6_SliceValueTable ==
    last.op = "_slice_value" => last.value = BoundTable(last.index)

\* A bound whose second inferred candidate is a constant int, the first not.
C6_Witness ==
    /\ last.op = "_slice_value"
    /\ last.index # 0
    /\ nodes[last.index].kind = "Name"
    /\ Len(infer(nodes, last.index).cands) = 2
    /\ ~UsableConst(infer(nodes, last.index).cands[1])
    /\ UsableConst(infer(nodes, last.index).cands[2])
    /\ last.value = _SLICE_SENTINEL

BoundsOf(sl) == <<nodes[sl].lower, nodes[sl].upper, nodes[sl].step>>

SomeSentinel(sl) == \E k \in 1..3 : BoundTable(BoundsOf(sl)[k]) = _SLICE_SENTINEL

AllAbsent(sl) == BoundsOf(sl) = <<0, 0, 0>>

SliceCall ==
    /\ last.op \in {"List.getitem", "Tuple.getitem", "Const.getitem"}
    /\ nodes[last.index].kind = "Slice"

(* C7: _infer_slice returns slice(lower, upper, step) exactly when none of  *)
(* the three resolved bounds is the sentinel and raises TypeError           *)
(* otherwise, and then List, Tuple and Const getitem with that slice raise  *)
(* TypeError too; a slice with all bounds left out resolves to              *)
(* slice(None, None, None) and is accepted by a list or a tuple.            *)
C7_SentinelMeansTypeError ==
    /\ last.op = "_infer_slice"
       => /\ last.outcome = "return" <=> ~SomeSentinel(last.index)
          /\ last.outcome = "return"
             => last.slice = [k \in 1..3 |-> BoundTable(BoundsOf(last.index)[k])]
          /\ last.outcome # "return" => last.outcome = "TypeError"
          /\ AllAbsent(last.index)
             => last.outcome = "return" /\ last.slice = <<NoneV, NoneV, NoneV>>
    /\ SliceCall
       => /\ SomeSentinel(last.index) => last.outcome = "TypeError"
          /\ (AllAbsent(last.index) /\ last.op # "Const.getitem")
             => last.outcome = "return"

\* A list subscripted with a slice whose lower bound is left out and whose
\* upper bound cannot be resolved.
C7_Witness ==
    /\ last.op = "List.getitem"
    /\ nodes[last.index].kind = "Slice"
    /\ nodes[last.index].lower = 0
    /\ BoundTable(nodes[last.index].upper) = _SLICE_SENTINEL
    /\ BoundTable(nodes[last.index].step) # _SLICE_SENTINEL
    /\ last.outcome = "TypeError"

GetitemCall ==
    last.op \in {"List.getitem", "Tuple.getitem", "Const.getitem", "Dict.getitem"}

(* C8: every inference a getitem entry point starts, and every nested       *)
(* getitem it calls, runs with the context the entry point was called with. *)
C8_ContextPassedOn ==
    GetitemCall
    => /\ last.inferctx \subseteq {last.context}
       /\ \A k \in 1..Len(last.nested) : last.nested[k].ctx = last.context

-----------------------------------------------------------------------------
(* postinit *)

(* C9: a postinit call on a node whose postinit has already been called     *)
(* leaves the node as the first call made it and does not return normally.  *)
C9_SecondPostinitRejected ==
    [][\A n \in 1..Len(nodes) :
          (postinits[n] >= 1 /\ postinits'[n] = postinits[n] + 1)
          => /\ nodes'[n] = nodes[n]
             /\ last'.outcome # "return"]_vars

-----------------------------------------------------------------------------
(* Queries and the tree *)

\* Node n keeps every field, except that its cached _proxied may be filled
\* in if it was not yet.
FieldsKept(n) ==
    IF "proxied" \in DOMAIN nodes[n]
    THEN /\ [nodes'[n] EXCEPT !.proxied = nodes[n].proxied] = nodes[n]
         /\ nodes[n].proxied # "unset" => nodes'[n].proxied = nodes[n].proxied
    ELSE nodes'[n] = nodes[n]

(* C10: no query (getitem of List, Tuple, Dict and Const, next_sibling,     *)
(* previous_sibling, block_range, starargs, kwargs, default_value,          *)
(* is_argument, type_errors, Slice.igetattr) removes a node or changes a    *)
(* field of a node that existed before the call, other than filling in the  *)
(* cached _proxied; what a call writes goes to the nodes it creates.        *)
C10_QueriesKeepNodes ==
    [][/\ Len(nodes') >= Len(nodes)
       /\ \A n \in 1..Len(nodes) : FieldsKept(n)]_vars

\* A list sliced into a new list: the elements of the new list are still the
\* children of the list they were taken from.
C10_Witness ==
    /\ last.op = "List.getitem"
    /\ last.outcome = "return"
    /\ last.created = 1
    /\ last.node = Len(nodes)
    /\ nodes[last.node].elts # <<>>
    /\ \A k \in 1..Len(nodes[last.node].elts) :
          nodes[nodes[last.node].elts[k]].parent = last.self

-----------------------------------------------------------------------------
(* The builtin-type proxy *)

\* The step reads _proxied of node n, directly or through Slice.getattr.
ReadsProxied(n) ==
    /\ last'.self = n
    /\ \/ last'.op = "_proxied"
       \/ last'.op = "Slice.igetattr" /\ last'.outcome = "proxy"

(* C11: no node has more than one lookup made for it in the builtins        *)
(* registry; the read of _proxied that finds no lookup made yet makes it,   *)
(* and every read after it makes none and returns the stub the node kept    *)
(* from the first read, which the node goes on keeping.                     *)
C11_ProxiedLookedUpOnce ==
    /\ [](\A n \in 1..Len(nodes) : lookups[n] <= 1)
    /\ [][\A n \in 1..Len(nodes) :
            ReadsProxied(n)
            => /\ last'.stub = nodes'[n].proxied
               /\ IF lookups[n] = 0
                  THEN last'.registry = <<n>> /\ lookups'[n] = 1
                  ELSE /\ last'.registry = <<>>
                       /\ last'.stub = nodes[n].proxied
                       /\ nodes'[n].proxied = nodes[n].proxied]_vars

\* A later read of the proxy of a list: no lookup, the stub of list returned.
C11_Witness ==
    /\ last.op = "_proxied"
    /\ nodes[last.self].kind = "List"
    /\ lookups[last.self] = 1
    /\ last.registry = <<>>
    /\ last.stub = "list"

-----------------------------------------------------------------------------
(* Statements *)

\* The child sequence of its parent that holds statement s, and the position
\* of s in it, counted from 0.
SiblingsOf(s) == child_sequence(nodes, nodes[s].parent, s)
PositionOf(s) == CHOOSE i \in 0..(Len(SiblingsOf(s)) - 1) : SiblingsOf(s)[i + 1] = s

(* C12: next_sibling of the statement at position i of a child sequence of  *)
(* length n returns the statement at position i + 1, and None when          *)
(* i = n - 1; previous_sibling returns the statement at position i - 1, and *)
(* None when i = 0; neither raises.                                         *)
C12_Siblings ==
    LET s == last.self
        i == PositionOf(s)
        n == Len(SiblingsOf(s))
    IN /\ last.op = "next_sibling"
          => /\ last.outcome = "return"
             /\ last.node = IF i < n - 1 THEN SiblingsOf(s)[i + 2] ELSE 0
       /\ last.op = "previous_sibling"
          => /\ last.outcome = "return"
             /\ last.node = IF i >= 1 THEN SiblingsOf(s)[i] ELSE 0

\* previous_sibling of the first of several statements returned None.
C12_Witness ==
    /\ last.op = "previous_sibling"
    /\ PositionOf(last.self) = 0
    /\ Len(SiblingsOf(last.self)) >= 2
    /\ last.node = 0

\* The first line of the first statement and the last line of the last
\* statement of a block.
FirstLine(block) == nodes[block[1]].fromlineno
LastLine(block) == nodes[block[Len(block)]].tolineno

IfCall == last.op = "If.block_range"

\* The else-branch span of the last If.block_range call, with the line
\* before the body as default boundary.
IfElseSpan ==
    _elsed_block_range(nodes, last.self, last.lineno, nodes[last.self].orelse,
                       FirstLine(nodes[last.self].body) - 1)

(* C13 as claimed: If.block_range(line) is (line, line) for the first line  *)
(* of the body, (line, last body line) for a line after it and up to the    *)
(* last line of the body, and the else-branch span for any other line.      *)
C13_IfBlockRange ==
    IfCall
    => LET body == nodes[last.self].body
           line == last.lineno
       IN last.result =
            IF line = FirstLine(body) THEN <<line, line>>
            ELSE IF FirstLine(body) < line /\ line <= LastLine(body)
            THEN <<line, LastLine(body)>>
            ELSE IfElseSpan

(* C13 as amended: If.block_range(line) is (line, line) for the first line  *)
(* of the body, (line, last body line) for every other line up to the last  *)
(* line of the body, the lines before the body (the line of the if itself)  *)
(* included, and the else-branch span for the lines after the body.         *)
C13_IfBlockRangeUpToBodyEnd ==
    IfCall
    => LET body == nodes[last.self].body
           line == last.lineno
       IN last.result =
            IF line = FirstLine(body) THEN <<line, line>>
            ELSE IF line <= LastLine(body) THEN <<line, LastLine(body)>>
            ELSE IfElseSpan

\* A line inside a body of three lines: the span runs to the body's end.
C13_Witness ==
    /\ IfCall
    /\ FirstLine(nodes[last.self].body) < last.lineno
    /\ last.lineno < LastLine(nodes[last.self].body)
    /\ last.result = <<last.lineno, LastLine(nodes[last.self].body)>>

TryExceptCall == last.op = "TryExcept.block_range"

\* Handler h applies to the line: the line is the first line of its
\* exception type, or a line of its body.
Applies(h, line) ==
    \/ nodes[h].type # 0 /\ line = nodes[nodes[h].type].fromlineno
    \/ FirstLine(nodes[h].body) <= line /\ line <= LastLine(nodes[h].body)

\* What the handler that applies answers.
HandlerSpan(h, line) ==
    IF nodes[h].type # 0 /\ line = nodes[nodes[h].type].fromlineno
    THEN <<line, line>>
    ELSE <<line, LastLine(nodes[h].body)>>

\* The result of the last TryExcept.block_range call is that of the first
\* handler that applies, and the else-branch span with the given default
\* boundary (0 for none) when no handler applies.
TryExceptSpan(boundary) ==
    LET self == last.self
        hs == nodes[self].handlers
        line == last.lineno
        applying == {k \in 1..Len(hs) : Applies(hs[k], line)}
    IN last.result =
         IF applying # {}
         THEN HandlerSpan(hs[CHOOSE k \in applying : \A j \in applying : k <= j], line)
         ELSE _elsed_block_range(nodes, self, line, nodes[self].orelse, boundary)

(* C14 as claimed: TryExcept.block_range(line) answers with the first       *)
(* handler that applies, and otherwise with the else-branch span whose      *)
(* default boundary is the line before the first handler (none without      *)
(* handlers).                                                               *)
C14_TryExceptBlockRange ==
    TryExceptCall
    => LET hs == nodes[last.self].handlers
       IN TryExceptSpan(IF hs = <<>> THEN 0 ELSE nodes[hs[1]].fromlineno - 1)

(* C14 as amended: the same, with the line before the first line of the     *)
(* first handler's body as default boundary.                                *)
C14_TryExceptBlockRangeBodyBoundary ==
    TryExceptCall
    => LET hs == nodes[last.self].handlers
       IN TryExceptSpan(IF hs = <<>> THEN 0 ELSE FirstLine(nodes[hs[1]].body) - 1)

\* A line of the try body, two handlers and no else: the span ends on the
\* line before the body of the first handler.
C14_Witness ==
    /\ TryExceptCall
    /\ Len(nodes[last.self].handlers) = 2
    /\ nodes[last.self].orelse = <<>>
    /\ last.lineno = FirstLine(nodes[last.self].body)
    /\ last.result = <<last.lineno,
                       FirstLine(nodes[nodes[last.self].handlers[1]].body) - 1>>

TryFinallyCall == last.op = "TryFinally.block_range"

\* The first body statement of the TryFinally is a TryExcept that starts on
\* its line, and the line is a line of that TryExcept.
InNestedTryExcept(self, line) ==
    LET child == nodes[self].body[1]
    IN /\ nodes[child].kind = "TryExcept"
       /\ nodes[child].fromlineno = nodes[self].fromlineno
       /\ nodes[child].fromlineno <= line
       /\ line <= nodes[child].tolineno

(* C15: TryFinally.block_range(line) is the nested TryExcept's              *)
(* block_range(line) when the first body statement is a TryExcept starting  *)
(* on the line of the TryFinally and line is one of its lines, and the      *)
(* finally-branch span without default boundary in every other case.        *)
C15_TryFinallyBlockRange ==
    TryFinallyCall
    => last.result =
         IF InNestedTryExcept(last.self, last.lineno)
         THEN TryExcept_block_range(nodes, nodes[last.self].body[1], last.lineno)
         ELSE _elsed_block_range(nodes, last.self, last.lineno,
                                 nodes[last.self].finalbody, 0)

\* A line of the handler of the nested try/except: its span, which is not
\* the finally-branch span.
C15_Witness ==
    /\ TryFinallyCall
    /\ InNestedTryExcept(last.self, last.lineno)
    /\ last.lineno > nodes[last.self].fromlineno
    /\ last.result = <<last.lineno, last.lineno>>
    /\ last.result # _elsed_block_range(nodes, last.self, last.lineno,
                                        nodes[last.self].finalbody, 0)

-----------------------------------------------------------------------------
(* type_errors *)

TypeErrorsCall ==
    last.op \in {"BinOp.type_errors", "AugAssign.type_errors", "UnaryOp.type_errors"}

\* The class of marker type_errors of the node's class collects.
MarkerOf(n) ==
    IF nodes[n].kind = "UnaryOp" THEN "BadUnaryOperationMessage"
    ELSE "BadBinaryOperationMessage"

\* The markers of that class among what inference yields for node n, in
\* the order inference yields them.
MarkersOf(n) ==
    SelectSeq(nodes[n].inferred.cands, LAMBDA result : result.c = MarkerOf(n))

(* C16 as claimed: type_errors returns exactly the bad-operation markers of  *)
(* the class of the node (BadBinaryOperationMessage for BinOp and AugAssign, *)
(* BadUnaryOperationMessage for UnaryOp) that inference yields, in order.    *)
C16_TypeErrorsAreTheMarkers ==
    TypeErrorsCall => last.result = MarkersOf(last.self)

(* C16 as amended: the same when inference ends without InferenceError;     *)
(* when inference raises InferenceError, type_errors returns the empty list *)
(* whatever markers inference yielded before.                               *)
C16_TypeErrorsUnlessInferenceError ==
    TypeErrorsCall
    => last.result = IF nodes[last.self].inferred.err THEN <<>>
                     ELSE MarkersOf(last.self)

\* Two markers with a value between them, both returned in order.
C16_Witness ==
    /\ last.op = "BinOp.type_errors"
    /\ nodes[last.self].inferred =
          Inferred(<<CBadBinary(2), CConst(IntV(1)), CBadBinary(1)>>, FALSE)
    /\ last.result = <<CBadBinary(2), CBadBinary(1)>>

-----------------------------------------------------------------------------
(* Traversal *)

ChildrenCall == last.op = "get_children"

\* The nodes held in the declared child fields, field after field, without
\* the children that are None.
DeclaredChildren(n) ==
    LET fields == _astroid_fields(nodes, n)
        RECURSIVE Held(_)
        Held(fs) ==
            IF fs = <<>> THEN <<>>
            ELSE (IF Head(fs).none THEN <<>> ELSE Head(fs).items) \o Held(Tail(fs))
    IN SelectSeq(Held(fields), LAMBDA c : c # 0)

(* C17 as claimed: children() of every node yields exactly the nodes held   *)
(* in its declared child fields, in field declaration order, children that  *)
(* are None left out; for a Dict the keys, then the values.                 *)
C17_ChildrenInDeclarationOrder ==
    ChildrenCall => last.result = DeclaredChildren(last.self)

(* C17 as amended: the same for every kind but Dict and Compare.  A Dict    *)
(* yields each key followed at once by its value, pair by pair, for as many *)
(* pairs as keys and values both have; a Compare yields left, also when it  *)
(* is None, and then the comparators.                                       *)
C17_ChildrenPairByPairForDict ==
    ChildrenCall =>
        LET self == nodes[last.self]
        IN CASE self.kind = "Dict" ->
                    /\ Len(last.result) % 2 = 0
                    /\ Len(last.result) <= 2 * Len(self.keys)
                    /\ Len(last.result) <= 2 * Len(self.values)
                    /\ \/ Len(last.result) = 2 * Len(self.keys)
                       \/ Len(last.result) = 2 * Len(self.values)
                    /\ \A j \in 1..(Len(last.result) \div 2) :
                          /\ last.result[2 * j - 1] = self.keys[j]
                          /\ last.result[2 * j] = self.values[j]
             [] self.kind = "Compare" ->
                    last.result = <<self.left>> \o self.comparators
             [] OTHER -> last.result = DeclaredChildren(last.self)

\* The children of a Dict of two pairs or more were asked for: the second
\* child is the first value.
C17_Witness ==
    /\ ChildrenCall
    /\ nodes[last.self].kind = "Dict"
    /\ Len(nodes[last.self].keys) >= 2
    /\ last.result[2] = nodes[last.self].values[1]

-----------------------------------------------------------------------------
(* Comprehension._get_filtered_stmts *)

FilteredCall == last.op = "Comprehension._get_filtered_stmts"

\* The statement a node is in: the nearest of the node and its ancestors that
\* is a statement.
EnclosingStatement(n) == statement(nodes, n)

(* C18: _get_filtered_stmts(lookup_node, node, stmts, mystmt) of a          *)
(* comprehension: when self is mystmt the result is ([lookup_node], True)   *)
(* if lookup_node is a Const (a NameConstant is one) or a Name, and         *)
(* (stmts, False) if lookup_node is of any other kind; when self is not     *)
(* mystmt the result is ([node], True) if the statement enclosing the       *)
(* comprehension is mystmt, and (stmts, False) otherwise.                   *)
C18_FilteredStmts ==
    FilteredCall =>
        LET a == last.args
            returned == <<last.result, last.truth>>
        IN IF last.self = a.mystmt
           THEN IF nodes[a.lookup_node].kind \in {"Const", "NameConstant", "Name"}
                THEN returned = <<(<<a.lookup_node>>), TRUE>>
                ELSE returned = <<a.stmts, FALSE>>
           ELSE IF EnclosingStatement(last.self) = a.mystmt
                THEN returned = <<(<<a.node>>), TRUE>>
                ELSE returned = <<a.stmts, FALSE>>

\* A comprehension was asked with the statement it is in as mystmt, and
\* answered with the node alone in place of other statements.
C18_Witness ==
    /\ FilteredCall
    /\ last.self # last.args.mystmt
    /\ EnclosingStatement(last.self) = last.args.mystmt
    /\ last.args.stmts # <<last.args.node>>
    /\ last.result = <<last.args.node>>
    /\ last.truth

-----------------------------------------------------------------------------
(* Arguments.default_value and Arguments.is_argument *)

DefaultValueCall == last.op = "Arguments.default_value"

\* The parameter named name in a list of parameters: the first one of that
\* name, 0 if there is none.  A tuple parameter has no name of its own.
Named(params, name) ==
    LET at == {k \in 1..Len(params) :
                 nodes[params[k]].kind = "Parameter" /\ nodes[params[k]].name = name}
    IN IF at = {} THEN 0
       ELSE params[CHOOSE k \in at : \A h \in at : k <= h]

\* A parameter (0 if there is none) has a default: one that is neither None
\* nor the Empty placeholder.
HasDefault(p) ==
    /\ p # 0
    /\ nodes[p].default # 0
    /\ nodes[nodes[p].default].kind # "Empty"

(* C19: default_value(argname) returns the default node of the parameter    *)
(* named argname when it has a default, looking among the positional        *)
(* parameters first (args, then the positional-only ones) and among the     *)
(* keyword-only parameters second; otherwise (no parameter of that name, or *)
(* none with a default) it raises NoDefault; it never returns None or the   *)
(* Empty placeholder.                                                       *)
C19_DefaultValue ==
    DefaultValueCall =>
        LET self == nodes[last.self]
            positional == Named(self.args \o self.positional_only, last.name)
            keyword == Named(self.keyword_only, last.name)
        IN /\ IF HasDefault(positional)
              THEN last.outcome = "return" /\ last.node = nodes[positional].default
              ELSE IF HasDefault(keyword)
              THEN last.outcome = "return" /\ last.node = nodes[keyword].default
              ELSE last.outcome = "NoDefault" /\ last.node = 0
           /\ last.outcome = "return" =>
                 last.node # 0 /\ nodes[last.node].kind # "Empty"
           /\ last.created = 0

\* default_value passed over a positional parameter of the name whose default
\* is the Empty placeholder and returned the default of the keyword-only one.
C19_Witness ==
    /\ DefaultValueCall
    /\ LET self == nodes[last.self]
           positional == Named(self.args \o self.positional_only, last.name)
           keyword == Named(self.keyword_only, last.name)
       IN /\ positional # 0
          /\ nodes[positional].default # 0
          /\ nodes[nodes[positional].default].kind = "Empty"
          /\ HasDefault(keyword)
          /\ last.outcome = "return"
          /\ last.node = nodes[keyword].default

IsArgumentCall == last.op = "Arguments.is_argument"

\* The names defined in an Arguments node: those of the vararg and the kwarg,
\* of the positional and positional-only parameters (those inside a tuple
\* parameter included) and of the keyword-only parameters.
DefinedNames(n) ==
    LET self == nodes[n]
        stars == {p \in {self.vararg, self.kwarg} : p # 0 /\ nodes[p].kind = "Parameter"}
        listed == {self.args[k] : k \in 1..Len(self.args)}
                    \cup {self.positional_only[k] : k \in 1..Len(self.positional_only)}
                    \cup {self.keyword_only[k] : k \in 1..Len(self.keyword_only)}
        inside == UNION {{nodes[t].elts[k] : k \in 1..Len(nodes[t].elts)} :
                           t \in {p \in listed : nodes[p].kind = "Tuple"}}
    IN {nodes[p].name : p \in {q \in stars \cup listed \cup inside :
                                 nodes[q].kind = "Parameter"}}

(* C20: is_argument(name) is True for every name defined in the arguments   *)
(* (the name of the vararg, the kwarg, a positional, a positional-only or a *)
(* keyword-only parameter) and falsy for every other name.                  *)
C20_IsArgument ==
    IsArgumentCall => (last.truth <=> last.name \in DefinedNames(last.self))

-----------------------------------------------------------------------------
(* Subscripting with an index that is neither a Slice nor a Const *)

\* The last call subscripted a list, a tuple or a constant with such an index.
OtherIndexCall ==
    /\ last.op \in {"List.getitem", "Tuple.getitem", "Const.getitem"}
    /\ nodes[last.index].kind \notin {"Slice", "Const"}

(* C21: List.getitem, Tuple.getitem and Const.getitem with an index node    *)
(* that is neither a Slice nor a Const fail with TypeError: the call        *)
(* returns no node (and so no bad-operation marker), creates none, and      *)
(* hands the index to no infer() call before failing.                       *)
C21_OtherIndexIsTypeError ==
    OtherIndexCall =>
        /\ last.outcome = "TypeError"
        /\ last.node = 0
        /\ last.created = 0
        /\ last.inferctx = {}
        /\ last.nested = <<>>

\* A string constant was subscripted with a name that inference would have
\* resolved to a usable position, and the call failed.
C21_Witness ==
    /\ OtherIndexCall
    /\ last.op = "Const.getitem"
    /\ nodes[last.self].value.t = "str"
    /\ nodes[last.index].kind = "Name"
    /\ nodes[last.index].inferred.cands = <<CConst(IntV(0))>>
    /\ last.outcome = "TypeError"

-----------------------------------------------------------------------------
(* Const.getitem *)

ConstCall == last.op = "Const.getitem"

\* The index of the last call: a Const holding an integer; a Slice, and
\* what its bounds resolve to.
IntIndex == nodes[last.index].kind = "Const" /\ nodes[last.index].value.t = "int"
SliceIndex == nodes[last.index].kind = "Slice"
Resolved == _infer_slice(nodes, last.index, last.context)

\* The index is one the call can use: an integer, or a slice whose three
\* bounds resolve.
UsableIndex == IntIndex \/ (SliceIndex /\ Resolved.ok)

\* The call made a Const of value v, without a parent.
ReturnedNewConst(v) ==
    /\ last.outcome = "return"
    /\ last.created = 1
    /\ last.node = Len(nodes)
    /\ nodes[last.node].kind = "Const"
    /\ nodes[last.node].parent = 0
    /\ nodes[last.node].value = v

\* value[i] of a string or bytes value, for i in range: a string of one
\* character, or the integer of one byte.
ItemOf(v, i) ==
    LET item == v.s[IF i >= 0 THEN i + 1 ELSE Len(v.s) + i + 1]
    IN IF v.t = "str" THEN StrV(<<item>>) ELSE IntV(item)

\* What the claim and its amendment agree on: an index that cannot be used
\* and a value that is no string fail with TypeError, and the bounds of a
\* slice are resolved whatever the value is.
ConstGetitemFailures ==
    /\ ~UsableIndex => last.outcome = "TypeError" /\ last.node = 0 /\ last.created = 0
    /\ nodes[last.self].value.t \notin {"str", "bytes"} =>
          last.outcome = "TypeError" /\ last.node = 0 /\ last.created = 0
    /\ SliceIndex => last.inferctx = Resolved.inferctx
    /\ (SliceIndex /\ \E b \in {nodes[last.index].lower, nodes[last.index].upper,
                                nodes[last.index].step} :
                         b # 0 /\ nodes[b].kind # "Const")
          => last.inferctx = {last.context}

(* C22 as claimed: Const.getitem on a string or bytes value returns a new   *)
(* Const without parent holding value[i] for a Const index i, or            *)
(* value[lower:upper:step] for a Slice that resolves; on a value of another *)
(* type it fails with TypeError for every index; the index is resolved      *)
(* before the value's type is looked at, and an index that cannot be used   *)
(* fails with TypeError whatever the value.                                 *)
C22_ConstGetitem ==
    ConstCall =>
        /\ ConstGetitemFailures
        /\ (UsableIndex /\ nodes[last.self].value.t \in {"str", "bytes"}) =>
              /\ last.outcome = "return"
              /\ last.created = 1
              /\ nodes[last.node].kind = "Const"
              /\ nodes[last.node].parent = 0

(* C22 as amended: the same when the integer i is in range of the value     *)
(* (-len <= i < len) and when the step of the slice is not 0; an integer    *)
(* out of range fails with IndexError and a step of 0 with ValueError, and  *)
(* neither returns or creates a node.                                       *)
C22_ConstGetitemInRange ==
    ConstCall =>
        /\ ConstGetitemFailures
        /\ (UsableIndex /\ nodes[last.self].value.t \in {"str", "bytes"}) =>
              LET v == nodes[last.self].value
                  i == nodes[last.index].value.i
              IN IF IntIndex
                 THEN IF -Len(v.s) <= i /\ i < Len(v.s)
                      THEN ReturnedNewConst(ItemOf(v, i))
                      ELSE /\ last.outcome = "IndexError"
                           /\ last.node = 0
                           /\ last.created = 0
                 ELSE IF PyEq(Resolved.step, IntV(0))
                      THEN /\ last.outcome = "ValueError"
                           /\ last.node = 0
                           /\ last.created = 0
                      ELSE ReturnedNewConst(
                               [v EXCEPT !.s = NativeSlice(v.s, Resolved.lower,
                                                           Resolved.upper, Resolved.step)])

\* A string was sliced backwards with a bound that had to be inferred, and
\* the reversed string came back in a new Const.
C22_Witness ==
    /\ ConstCall
    /\ SliceIndex
    /\ nodes[last.self].value = StrV(AB)
    /\ last.inferctx = {"ctx"}
    /\ last.outcome = "return"
    /\ nodes[last.node].value = StrV(<<"b", "a">>)
    /\ nodes[last.node].parent = 0

-----------------------------------------------------------------------------
(* type_errors and InferenceError *)

(* C23: type_errors of BinOp, AugAssign and UnaryOp never ends with         *)
(* InferenceError: it always returns, and when inference raises             *)
(* InferenceError, before the first result or after markers, it returns the *)
(* empty list and none of the markers produced before.                      *)
C23_InferenceErrorGivesEmptyList ==
    TypeErrorsCall =>
        /\ last.outcome = "return"
        /\ nodes[last.self].inferred.err => last.result = <<>>

\* Inference of a unary operation produced a marker of its class and then
\* raised InferenceError; type_errors returned the empty list.
C23_Witness ==
    /\ last.op = "UnaryOp.type_errors"
    /\ nodes[last.self].inferred.err
    /\ MarkersOf(last.self) # <<>>
    /\ last.outcome = "return"
    /\ last.result = <<>>

====
